---- MODULE Spec2Model ----
(***************************************************************************)
(* Model of the benchmark execution pipeline of ollama_llm_bench:          *)
(*   - the Result Store rows the engine reads and writes (SqLiteDataApi),  *)
(*   - the Flow Coordinator (QtBenchmarkFlowApi) and its single-thread     *)
(*     QThreadPool,                                                        *)
(*   - the two Execution Engine classes named BenchmarkExecutionTask:      *)
(*     the one in qt_benchmark_execution_task.py (cls = "task") and the    *)
(*     one defined inside qt_benchmark_flow.py (cls = "flow").             *)
(* The UI thread (start_execution / stop_execution) interleaves with the   *)
(* worker thread at every read of the stop flag and around every blocking  *)
(* collaborator call (warm-up, inference).                                 *)
(***************************************************************************)
EXTENDS Integers, Sequences, FiniteSets, TLC

\* ------------------------------------------------------------------ bounds
NumModels == 2
NumTasks == 2
MaxEngines == 2
MaxFaults == 2
MaxNewRuns == 1

\* ------------------------------------------------------- program constants
MaxThreadCount == 1

\* Optional[...] values: None is the empty tuple, Some(v) a one-element tuple.
None == <<>>
Some(v) == <<v>>

\* Optional[BenchmarkExecutionTask] / Optional[int] held by the coordinator:
\* engine ids and run ids are positive, 0 stands for Python's None.
NoTask == 0
NoRun == 0

NOT_COMPLETED == "NOT_COMPLETED"
WAITING_FOR_JUDGE == "WAITING_FOR_JUDGE"
COMPLETED == "COMPLETED"
FAILED == "FAILED"
BenchmarkResultStatus == {NOT_COMPLETED, WAITING_FOR_JUDGE, COMPLETED, FAILED}

STAGE_INITIALIZING == "INITIALIZING"
STAGE_BENCHMARKING == "BENCHMARKING"
STAGE_JUDGING == "JUDGING"
STAGE_FINISHED == "FINISHED"
STAGE_FAILED == "FAILED"

ModelNames == 1..NumModels
TaskIds == 1..NumTasks
JudgeModel == 0
EngineIds == 1..MaxEngines
ExistingRun == 1
CompletedRun == 3
RunIdInputs == {1, 2, 3}
\* sqlite_sequence of benchmark_runs once the stored runs exist
InitialRunSeq == 3
EngineClasses == {"task", "flow"}

\* ------------------------------------------------------------ result rows
BenchmarkResult(rid, run, task, model, status, resp, ms, tok, score, reason, err) ==
  [result_id |-> rid, run_id |-> run, task_id |-> task, model_name |-> model,
   status |-> status, llm_response |-> resp, time_taken_ms |-> ms,
   tokens_generated |-> tok, evaluation_score |-> score,
   evaluation_reason |-> reason, error_message |-> err]

\* Rows created at run start: for each selected model, for each loaded task,
\* one row with the dataclass defaults (status NOT_COMPLETED, all else None).
InitialResults ==
  [rid \in 1..(NumModels * NumTasks) |->
     BenchmarkResult(rid, ExistingRun, ((rid - 1) % NumTasks) + 1,
                     ((rid - 1) \div NumTasks) + 1, NOT_COMPLETED,
                     None, None, None, None, None, None)]

InitialRuns ==
  [r \in {ExistingRun, CompletedRun} |->
     [run_id |-> r, timestamp |-> r, judge_model |-> JudgeModel,
      status |-> IF r = CompletedRun THEN COMPLETED ELSE NOT_COMPLETED]]

\* SELECT ... FROM results WHERE run_id = ?  (rows come back in rowid order)
retrieve_benchmark_results_for_run(st, run) ==
  LET all == [i \in 1..Cardinality(DOMAIN st) |-> st[i]]
      Keep(r) == r.run_id = run
  IN SelectSeq(all, Keep)

\* variant: the WHERE clause loses its status condition
retrieve_ignoring_status(st, run, status) == retrieve_benchmark_results_for_run(st, run)

\* SELECT ... FROM results WHERE run_id = ? AND status = ?
retrieve_benchmark_results_for_run_with_status(st, run, status) ==
  LET all == [i \in 1..Cardinality(DOMAIN st) |-> st[i]]
      Keep(r) == r.run_id = run /\ r.status = status
  IN SelectSeq(all, Keep)

\* variant: UPDATE ... WHERE run_id = ? AND model_name = ?, the payload of the
\* row lands on every row of its model
update_benchmark_result_by_model(st, row) ==
  [rid \in DOMAIN st |->
     IF st[rid].run_id = row.run_id /\ st[rid].model_name = row.model_name
       THEN [row EXCEPT !.result_id = rid, !.task_id = st[rid].task_id]
       ELSE st[rid]]

\* UPDATE results SET ... WHERE result_id = ?  (full-row replace, no-op if absent)
update_benchmark_result(st, row) ==
  IF row.result_id \in DOMAIN st THEN [st EXCEPT ![row.result_id] = row] ELSE st

\* INSERT INTO benchmark_runs: AUTOINCREMENT hands out the id after the largest
\* one ever used; the row is stored as NOT_COMPLETED
create_benchmark_run(rt, seq, judge_model) ==
  [r \in DOMAIN rt \cup {seq + 1} |->
     IF r = seq + 1
       THEN [run_id |-> seq + 1, timestamp |-> seq + 1, judge_model |-> judge_model,
             status |-> NOT_COMPLETED]
       ELSE rt[r]]

\* DELETE FROM benchmark_runs WHERE run_id = ?  The results table declares
\* REFERENCES benchmark_runs(run_id) with no ON DELETE action and the
\* connection does not enable foreign keys: the results table is not touched
delete_benchmark_run(rt, run) == [r \in DOMAIN rt \ {run} |-> rt[r]]

\* INSERT INTO results for every row of the list, in one transaction; the
\* result ids follow the rows already stored
create_benchmark_results(st, rows) ==
  [i \in 1..(Len(st) + Len(rows)) |->
     IF i <= Len(st) THEN st[i] ELSE [rows[i - Len(st)] EXCEPT !.result_id = i]]

\* TaskApi.load_tasks: the loaded tasks, in file order
load_tasks == [i \in 1..NumTasks |-> i]

\* variant: only the first loaded task gets a row for each model
NewRunRowsFirstTaskOnly(run, models, tasks) ==
  [k \in 1..Len(models) |->
     BenchmarkResult(0, run, tasks[1], models[k], NOT_COMPLETED,
                     None, None, None, None, None, None)]

\* handle_start_click: for model_name in event.models: for task in tasks:
\* one BenchmarkResult with the dataclass defaults
NewRunRows(run, models, tasks) ==
  [k \in 1..(Len(models) * Len(tasks)) |->
     BenchmarkResult(0, run, tasks[((k - 1) % Len(tasks)) + 1],
                     models[((k - 1) \div Len(tasks)) + 1], NOT_COMPLETED,
                     None, None, None, None, None, None)]

\* NewRunWidgetStartEvent.models: the test models ticked in the widget, none
\* of them twice (the empty selection included)
ModelSelections ==
  {<<>>} \cup
  {sel \in UNION {[1..n -> ModelNames] : n \in 1..NumModels} :
     \A i, j \in DOMAIN sel : i # j => sel[i] # sel[j]}

\* ------------------------------------------------------ inference client
InferenceResponse(resp, ms, tok, has_error, err) ==
  [llm_response |-> resp, time_taken_ms |-> ms, tokens_generated |-> tok,
   has_error |-> has_error, error_message |-> err]

\* LLMApi.inference handing back a generated text
GoodResponse == InferenceResponse("text", 1, 1, FALSE, None)

\* OllamaApi.inference after an internal exception: defaults plus has_error
ErrorResponse == InferenceResponse("", 0, 0, TRUE, Some("err"))

\* JSON values as json.loads hands them to Python
JAbsent == [k |-> "absent", n |-> 0, s |-> ""]
JNull == [k |-> "null", n |-> 0, s |-> ""]
JNum(n) == [k |-> "num", n |-> n, s |-> ""]
JNaN == [k |-> "nan", n |-> 0, s |-> ""]
JStr(s) == [k |-> "str", n |-> 0, s |-> s]
JBool(b) == [k |-> "bool", n |-> IF b THEN 1 ELSE 0, s |-> ""]
JList == [k |-> "list", n |-> 0, s |-> ""]

GradeInRange == 85
GradeBelowRange == -1
GradeAboveRange == 101
GradeLow == 0
GradeHigh == 100

\* what the "reason" and "grade" keys of a judge's JSON object can hold
ReasonValues == {JAbsent, JNull, JStr(""), JStr("reason"), JNum(GradeInRange)}
GradeValues ==
  {JAbsent, JNull, JNum(GradeBelowRange), JNum(GradeLow), JNum(GradeInRange),
   JNum(GradeHigh), JNum(GradeAboveRange), JNaN, JStr("85"), JStr("high"),
   JBool(TRUE), JList}

\* Judge output: the JSON text (json: "malformed", an object with its reason
\* and grade keys, or another top-level value) and what surrounds it (wrap:
\* nothing, a ```json fence, or prose before and after)
JudgeTexts ==
  [wrap : {"plain", "fenced", "prose"}, json : {"object"},
   reason : ReasonValues, grade : GradeValues]
  \cup [wrap : {"plain", "fenced", "prose"},
        json : {"malformed", "number", "string", "list", "bool", "null"},
        reason : {JAbsent}, grade : {JAbsent}]

\* sanitize_json_string: the turn markers and the code fence are removed
sanitize_json_string(t) == [t EXCEPT !.wrap = IF @ = "fenced" THEN "plain" ELSE @]

\* extract_json_object: the text from the first '{' to the last '}', the whole
\* text when it holds no such pair
extract_json_object(t) ==
  [t EXCEPT !.wrap = IF t.json = "object" /\ @ = "prose" THEN "plain" ELSE @]

\* json.loads: the kind of value produced, "malformed" for JSONDecodeError
json_loads(t) == IF t.wrap # "plain" THEN "malformed" ELSE t.json

\* float(): numbers and booleans convert, a string converts when it spells a
\* number, None and lists raise TypeError
python_float(v) ==
  IF v.k \in {"num", "bool"} THEN [ok |-> TRUE, nan |-> FALSE, n |-> v.n]
  ELSE IF v.k = "nan" THEN [ok |-> TRUE, nan |-> TRUE, n |-> 0]
  ELSE IF v.k = "str" /\ v.s = "85" THEN [ok |-> TRUE, nan |-> FALSE, n |-> 85]
  ELSE [ok |-> FALSE, nan |-> FALSE, n |-> 0]

ParseFailure == [raised |-> FALSE, has_error |-> TRUE, grade |-> 0, reason |-> "diag"]

\* parse_judge_response: (has_error, grade, reason), or an escaping exception
\* (raised = TRUE) when the parsed JSON value has no .get attribute.
parse_judge_response(t) ==
  LET data == json_loads(extract_json_object(sanitize_json_string(t)))
      reason == IF t.reason = JAbsent THEN JStr("") ELSE t.reason
      grade == python_float(t.grade)
  IN IF data = "malformed" THEN ParseFailure
     ELSE IF data # "object"
       THEN [raised |-> TRUE, has_error |-> TRUE, grade |-> 0, reason |-> "diag"]
     ELSE IF reason.k # "str" THEN ParseFailure
     ELSE IF t.grade \in {JAbsent, JNull} THEN ParseFailure
     ELSE IF ~grade.ok THEN ParseFailure
     ELSE IF grade.nan \/ ~(GradeLow <= grade.n /\ grade.n <= GradeHigh) THEN ParseFailure
     ELSE [raised |-> FALSE, has_error |-> FALSE, grade |-> grade.n, reason |-> reason.s]

\* judge texts the engine is driven with: well-formed, unparsable, non-object
WellFormedText ==
  [wrap |-> "plain", json |-> "object", reason |-> JStr("reason"), grade |-> JNum(GradeInRange)]
EngineJudgeTexts ==
  { WellFormedText,
    [wrap |-> "plain", json |-> "malformed", reason |-> JAbsent, grade |-> JAbsent],
    [wrap |-> "plain", json |-> "number", reason |-> JAbsent, grade |-> JAbsent] }

\* parse_judge_response on each of these texts, tabulated once
EngineParsed == [t \in EngineJudgeTexts |-> parse_judge_response(t)]

\* OllamaApi.warm_up: for retry in range(5)
WarmupAttempts == 5

\* how one client.generate call of warm_up can end: a reply, an exception, a
\* reply object whose .response cannot be read (an exception inside the try)
GenerateOutcomes == {"reply", "raise", "bad_reply"}

\* a warm_up call that has not made an attempt yet
NewWarmup(model) == [model |-> model, pc |-> "generate", retry |-> 0, calls |-> <<>>,
                     result |-> None]

\* variant: a successful attempt does not end the loop
warm_up_step_no_early_return(w, o) ==
  [w EXCEPT !.calls = Append(@, o), !.pc = "sleep"]

\* one pass of the loop body up to the sleep: the generate call, then either
\* return True or go to sleep before the next attempt
warm_up_step(w, o) ==
  IF o = "reply"
    THEN [w EXCEPT !.calls = Append(@, o), !.pc = "done", !.result = Some(TRUE)]
    ELSE [w EXCEPT !.calls = Append(@, o), !.pc = "sleep"]

\* time.sleep(30) returns: the next attempt, or return False after the last one
warm_up_wake(w) ==
  IF w.retry + 1 < WarmupAttempts
    THEN [w EXCEPT !.retry = @ + 1, !.pc = "generate"]
    ELSE [w EXCEPT !.retry = @ + 1, !.pc = "done", !.result = Some(FALSE)]

\* how one guarded per-task body can end
BenchPromptOutcomes == {"ok", "prompt_raise", "prompt_raise_store_down"}
BenchInferOutcomes ==
  {"ok", "has_error", "infer_raise", "write_raise", "infer_raise_store_down", "store_down"}
JudgeInferOutcomes == {"returns", "infer_raise", "write_raise", "infer_raise_store_down", "store_down"}

\* ------------------------------------------------------------------ state
VARIABLES
  engineClass,     \* which class the name BenchmarkExecutionTask denotes in start_execution
  parse_call,      \* a call of parse_judge_response: its input and what came back
  warm_up_call,    \* a call of OllamaApi.warm_up: its position, its generate calls, its result
  runs,            \* benchmark_runs table: run_id -> row
  run_seq,         \* sqlite_sequence of benchmark_runs: the largest run_id ever handed out
  click,           \* handle_start_click: where the handler stands, the run it created, its models
  results,         \* results table: result_id -> row
  engines,         \* engine id -> BenchmarkExecutionTask object (pc = "none": not constructed)
  current_task,    \* QtBenchmarkFlowApi._current_task
  current_run_id,  \* QtBenchmarkFlowApi._current_run_id
  pool_active,     \* runnables executing on a pool thread
  pool_queue,      \* runnables waiting for a pool thread
  last_call,       \* how the latest coordinator call ended: "started", "stopped" or the error raised
  last_busy,       \* whether a submitted engine was unfinished when stop_execution was last called
  coord_pc,        \* "emit": start_execution has submitted the engine and not yet emitted the status
  start_emit,      \* the value start_execution last passed to benchmark_status_events.emit
  status_events,   \* benchmark_status_events: the value subscribers saw last, worker emits not yet relayed,
                   \* and what a callback connected by subscribe_to_benchmark_status_events received
  subscriptions,   \* what callbacks connected to benchmark_output_events / _progress_events received
  last_write,      \* the latest update_benchmark_result that reached the table
  faults           \* number of collaborator failures so far

vars == <<engineClass, parse_call, warm_up_call, subscriptions, runs, run_seq, click, results, engines, current_task, current_run_id,
          pool_active, pool_queue, last_call, last_busy, coord_pc, start_emit,
          status_events, last_write, faults>>
envVars == <<engineClass, parse_call, warm_up_call, subscriptions>>
coordOwnVars == <<current_task, current_run_id, last_call, last_busy, coord_pc, start_emit,
                  click>>
coordVars == <<coordOwnVars, status_events>>
poolVars == <<pool_active, pool_queue>>
storeVars == <<runs, run_seq, results, last_write>>

\* BenchmarkExecutionTask.__init__ (both classes), plus bookkeeping fields that
\* record what the object did (user_stop .. last_completed).
NewEngine(cls, run) ==
  [cls |-> cls, run_id |-> run, pc |-> "queued", stop_requested |-> FALSE,
   total_tasks |-> 0, completed_tasks |-> 0, current_model |-> None,
   current_task_id |-> None, stage |-> STAGE_INITIALIZING,
   tasks |-> <<>>, models |-> <<>>, mi |-> 0, ti |-> 0,
   user_stop |-> FALSE, stop_in_flight |-> None, stop_stage |-> None,
   late_calls |-> {}, judge_called |-> FALSE, written |-> {},
   run_start |-> <<>>, judge_only |-> FALSE, raised |-> {},
   store_raised |-> FALSE, warmup_failed |-> FALSE,
   emitted |-> FALSE, mono |-> TRUE, last_completed |-> 0,
   status_changed |-> None, last_stage |-> None, stage_raised |-> FALSE,
   bench_calls |-> <<>>, error_reported |-> {}, last_total |-> 0]

NoEngine == [NewEngine("task", NoRun) EXCEPT !.pc = "none"]

\* what is left of an engine object once run() has returned
Finished(g) ==
  [NewEngine(g.cls, g.run_id) EXCEPT !.pc = "done",
     !.stop_requested = g.stop_requested, !.user_stop = g.user_stop,
     !.stage = g.stage, !.mono = g.mono, !.status_changed = g.status_changed,
     !.last_stage = g.last_stage]

NoWrite == [result_id |-> 0, engine |-> 0, from |-> NOT_COMPLETED, to |-> NOT_COMPLETED,
            parse_error |-> FALSE]

NoParse == [input |-> WellFormedText, result |-> None]

NoClick == [pc |-> "idle", run_id |-> NoRun, models |-> <<>>]

\* a callback nobody has connected yet
NoCallback == [connected |-> FALSE, received |-> <<>>]

NoStatusEvents == [seen |-> None, pending |-> <<>>, callback |-> NoCallback]

NoSubscriptions == [output |-> NoCallback, progress |-> NoCallback]

\* the store as the widgets find it and a coordinator that has started nothing
ProgramStart(failures) ==
  /\ runs = InitialRuns
  /\ run_seq = InitialRunSeq
  /\ click = NoClick
  /\ results = InitialResults
  /\ engines = [e \in EngineIds |-> NoEngine]
  /\ current_task = NoTask
  /\ current_run_id = NoRun
  /\ pool_active = {}
  /\ pool_queue = <<>>
  /\ last_call = "none"
  /\ last_busy = FALSE
  /\ coord_pc = "idle"
  /\ start_emit = None
  /\ status_events = NoStatusEvents
  /\ subscriptions = NoSubscriptions
  /\ last_write = NoWrite
  /\ faults = failures

ProgramInit == ProgramStart(0)

Init ==
  /\ engineClass \in EngineClasses
  /\ parse_call = NoParse
  /\ warm_up_call = NewWarmup(JudgeModel)
  /\ ProgramInit

\* ------------------------------------------------------- Flow Coordinator
is_stopped(e) == engines[e].stop_requested

\* variant: the stop flag is tested the wrong way round
is_running_inverted == current_task # NoTask /\ is_stopped(current_task)

is_running == current_task # NoTask /\ ~is_stopped(current_task)

get_current_run_id == current_run_id

Constructed == {e \in EngineIds : engines[e].pc # "none"}

\* variant: a pool without a thread cap starts every runnable at once
PoolStartUncapped(e, g) ==
  /\ pool_active' = pool_active \cup {e}
  /\ pool_queue' = pool_queue
  /\ engines' = [engines EXCEPT ![e] = [g EXCEPT !.pc = "run"]]

\* QThreadPool.start: run at once when a thread is free, else enqueue.
PoolStart(e, g) ==
  IF Cardinality(pool_active) < MaxThreadCount
    THEN /\ pool_active' = pool_active \cup {e}
         /\ pool_queue' = pool_queue
         /\ engines' = [engines EXCEPT ![e] = [g EXCEPT !.pc = "run"]]
    ELSE /\ pool_active' = pool_active
         /\ pool_queue' = Append(pool_queue, e)
         /\ engines' = [engines EXCEPT ![e] = g]

\* start_execution up to and including self._thread_pool.start(task); the
\* worker thread may run before the status emit that ends the call
\* variant: the run is only required to exist
valid_run_exists_only(run_id) == run_id \in DOMAIN runs

\* start_execution: the run is retrieved and its status is NOT_COMPLETED
valid_run(run_id) == run_id \in DOMAIN runs /\ runs[run_id].status = NOT_COMPLETED

\* the thread of the coordinator is inside start_execution or handle_start_click
\* and does not return to its event loop
main_thread_busy == coord_pc = "emit" \/ click.pc = "start"

\* benchmark_status_events.emit(value) on the coordinator's thread: every
\* connected callback is called with the value
deliver_status(ev, value) ==
  [ev EXCEPT !.seen = Some(value),
             !.callback.received = IF ev.callback.connected THEN Append(@, value) ELSE @]

\* variant: an engine's emit runs the relay at once, whatever the main thread does
emit_status_direct(e, value) ==
  status_events' = IF e # current_task THEN status_events
                   ELSE deliver_status(status_events, value)

\* status_changed.emit(value) on a worker thread: nothing when the engine's
\* signals are not connected; else the relay to benchmark_status_events is
\* posted to the coordinator's thread, which runs it once it is in its event loop
emit_status(e, value) ==
  status_events' = IF e # current_task THEN status_events
                   ELSE IF main_thread_busy
                     THEN [status_events EXCEPT !.pending = Append(@, value)]
                   ELSE deliver_status(status_events, value)

\* back in the event loop: the posted relays run in the order they were posted
RECURSIVE relay_pending(_)
relay_pending(ev) ==
  IF ev.pending = <<>> THEN ev
  ELSE relay_pending([deliver_status(ev, Head(ev.pending)) EXCEPT !.pending = Tail(@)])

\* _disconnect_current_task while relays of the old engine are still posted:
\* they are run later or discarded
disconnect_pending ==
  \E keep \in (IF status_events.pending = <<>> THEN {TRUE} ELSE BOOLEAN) :
    status_events' = IF keep THEN status_events
                     ELSE [status_events EXCEPT !.pending = <<>>]

start_execution(run_id) ==
  /\ coord_pc = "idle"
  /\ IF is_running
       THEN \* raise RuntimeError("A benchmark is already running")
            /\ last_call' = "AlreadyRunning"
            /\ UNCHANGED <<envVars, storeVars, engines, current_task, current_run_id,
                           poolVars, faults, last_busy, coord_pc, start_emit>>
            /\ status_events' = relay_pending(status_events)
     ELSE IF ~valid_run(run_id)
       THEN \* raise ValueError(f"Invalid run_id: {run_id}")
            /\ last_call' = "InvalidRun"
            /\ UNCHANGED <<envVars, storeVars, engines, current_task, current_run_id,
                           poolVars, faults, last_busy, coord_pc, start_emit>>
            /\ status_events' = relay_pending(status_events)
     ELSE /\ Cardinality(Constructed) < MaxEngines
          /\ LET e == Cardinality(Constructed) + 1
             IN /\ PoolStart(e, NewEngine(engineClass, run_id))
                /\ current_task' = e
                /\ current_run_id' = run_id
          /\ coord_pc' = "emit"
          /\ disconnect_pending
          /\ UNCHANGED <<envVars, storeVars, faults, last_call, last_busy, start_emit>>

\* the last statement of start_execution: benchmark_status_events.emit(self.is_running())
start_execution_emit ==
  /\ coord_pc = "emit"
  /\ start_emit' = Some(is_running)
  /\ status_events' = relay_pending(deliver_status(status_events, is_running))
  /\ coord_pc' = "idle"
  /\ last_call' = "started"
  /\ UNCHANGED <<envVars, storeVars, engines, current_task, current_run_id,
                 poolVars, faults, last_busy, click>>

\* ---------------------------------------------- engine: shared helpers
\* _update_progress: emit a ReporterStatusMsg snapshot; the bookkeeping keeps
\* the last emitted tasks_completed and whether it ever went down.
update_progress(g) ==
  [g EXCEPT !.emitted = TRUE,
            !.mono = g.mono /\ (~g.emitted \/ g.completed_tasks >= g.last_completed),
            !.last_completed = g.completed_tasks,
            !.last_total = g.total_tasks,
            !.last_stage = Some(g.stage)]

\* variant: the engine never looks at the stop flag
should_stop_never(g) == FALSE

\* _should_stop / is_stopped as evaluated by the engine itself
should_stop(g) == g.stop_requested

\* bookkeeping: collaborator calls (warm-up, inference) started after stop()
LateCall(g, kind) == IF g.user_stop THEN g.late_calls \cup {kind} ELSE g.late_calls

\* variant: the groups are taken in ascending order of model name
RECURSIVE SortedKeys(_, _)
SortedKeys(names, acc) ==
  IF names = {} THEN acc
  ELSE LET m == CHOOSE x \in names : \A y \in names : x <= y
       IN SortedKeys(names \ {m}, Append(acc, m))

group_tasks_sorted_by_name(tasks) ==
  SortedKeys({tasks[i].model_name : i \in 1..Len(tasks)}, <<>>)

\* bookkeeping: what the benchmarking stage in progress has taken up so far,
\* a warm-up of a model or a pending row
WarmupCall(model) == [kind |-> "warmup", model_name |-> model, result_id |-> 0]
TaskCall(task) == [kind |-> "task", model_name |-> task.model_name,
                   result_id |-> task.result_id]

RECURSIVE FirstSeen(_, _, _)
FirstSeen(tasks, i, acc) ==
  IF i > Len(tasks) THEN acc
  ELSE FirstSeen(tasks, i + 1,
         IF \E k \in 1..Len(acc) : acc[k] = tasks[i].model_name
           THEN acc ELSE Append(acc, tasks[i].model_name))

\* _group_tasks_by_model: the dict's keys, in insertion order
group_tasks_by_model(tasks) == FirstSeen(tasks, 1, <<>>)

\* the dict's value for one key: that model's tasks in retrieval order
tasks_for_model(tasks, model) ==
  LET Keep(r) == r.model_name = model IN SelectSeq(tasks, Keep)

StatusSnapshot(run) ==
  [rid \in {r \in DOMAIN results : results[r].run_id = run} |-> results[rid].status]

\* a collaborator failure is drawn only while the fault budget lasts
Fault(is_fault) ==
  /\ is_fault => faults < MaxFaults
  /\ faults' = IF is_fault THEN faults + 1 ELSE faults

\* bookkeeping: the rows this invocation has stored, latest value per result_id
Wrote(g, row) ==
  [g EXCEPT !.written = {w \in @ : w.result_id # row.result_id} \cup {row}]

\* update_benchmark_result reaching the table, with a record of the transition
WriteRow(e, row, parse_error) ==
  /\ results' = update_benchmark_result(results, row)
  /\ last_write' = [result_id |-> row.result_id, engine |-> e,
                    from |-> results[row.result_id].status, to |-> row.status,
                    parse_error |-> parse_error]

\* the worker thread leaves run(): its pool thread takes the next queued runnable
PoolRelease(e, g) ==
  IF pool_queue = <<>>
    THEN /\ pool_active' = pool_active \ {e}
         /\ pool_queue' = pool_queue
         /\ engines' = [engines EXCEPT ![e] = g]
    ELSE /\ pool_active' = (pool_active \ {e}) \cup {Head(pool_queue)}
         /\ pool_queue' = Tail(pool_queue)
         /\ engines' = [engines EXCEPT ![e] = g,
                                       ![Head(pool_queue)].pc = "run"]

\* BenchmarkExecutionTask.stop; the bookkeeping keeps the stage whose function
\* was executing when the flag was set (none once it has returned) and the row
\* whose inference call was in flight at that moment
stop(g) ==
  IF ~g.stop_requested
    THEN [g EXCEPT !.stop_requested = TRUE, !.user_stop = TRUE,
                   !.stop_stage = IF g.pc \in {"b_end", "finalize"}
                                    THEN None ELSE Some(g.stage),
                   !.stop_in_flight =
                     IF g.pc = "b_infer"
                       THEN Some(tasks_for_model(g.tasks, g.models[g.mi])[g.ti])
                       ELSE None]
    ELSE g

stop_execution ==
  /\ coord_pc = "idle"
  /\ last_busy' = (\E e \in EngineIds : engines[e].pc \notin {"none", "done"})
  /\ IF ~is_running
       THEN \* raise RuntimeError("No benchmark is currently running")
            /\ last_call' = "NotRunning"
            /\ UNCHANGED <<envVars, storeVars, engines, current_task, current_run_id,
                           poolVars, faults, coord_pc, start_emit, status_events, click>>
     ELSE /\ engines' = [engines EXCEPT ![current_task] = stop(engines[current_task])]
          /\ last_call' = "stopped"
          /\ UNCHANGED <<envVars, storeVars, current_task, current_run_id, poolVars,
                         faults, coord_pc, start_emit, status_events, click>>

\* ------------------------- engine of qt_benchmark_execution_task.py ("task")
IsTask(e, pc) == engines[e].cls = "task" /\ engines[e].pc = pc

\* run(): first progress event, status_changed(True), enter the benchmark stage
T_Run(e) ==
  /\ IsTask(e, "run")
  /\ LET g0 == update_progress(engines[e])
         g1 == [g0 EXCEPT !.stage = STAGE_BENCHMARKING, !.pc = "b_stage",
                          !.status_changed = Some(TRUE),
                          !.run_start = StatusSnapshot(g0.run_id)]
     IN engines' = [engines EXCEPT ![e] = g1]
  /\ emit_status(e, TRUE)
  /\ UNCHANGED <<envVars, storeVars, coordOwnVars, poolVars, faults>>

\* _execute_benchmark_for_tasks: the stop check that opens the stage
T_BenchStage(e) ==
  /\ IsTask(e, "b_stage")
  /\ engines' = [engines EXCEPT ![e].pc =
                   IF should_stop(engines[e]) THEN "finalize" ELSE "b_load"]
  /\ UNCHANGED <<envVars, storeVars, coordVars, poolVars, faults>>

\* _execute_benchmark_for_tasks: load the rows, set the counters, group
T_BenchLoad(e, store_ok) ==
  /\ IsTask(e, "b_load")
  /\ Fault(~store_ok)
  /\ LET g == engines[e]
         all_tasks == retrieve_benchmark_results_for_run(results, g.run_id)
         tasks_to_run == retrieve_benchmark_results_for_run_with_status(
                           results, g.run_id, NOT_COMPLETED)
         g1 == update_progress([g EXCEPT !.total_tasks = Len(all_tasks),
                   !.completed_tasks = Len(all_tasks) - Len(tasks_to_run)])
     IN engines' = [engines EXCEPT ![e] =
          IF ~store_ok
            THEN [g EXCEPT !.pc = "finalize", !.store_raised = TRUE,
                         !.stage_raised = TRUE]
          ELSE IF tasks_to_run = <<>>
            THEN [g1 EXCEPT !.pc = "finalize",
                            !.judge_only = \E i \in 1..Len(all_tasks) :
                                             all_tasks[i].status = WAITING_FOR_JUDGE]
          ELSE [g1 EXCEPT !.tasks = tasks_to_run,
                          !.models = group_tasks_by_model(tasks_to_run),
                          !.mi = 1, !.ti = 0, !.pc = "b_model"]]
  /\ UNCHANGED <<envVars, storeVars, coordVars, poolVars>>

\* model loop head: stop check, then the warm-up call is started
T_BenchModel(e) ==
  /\ IsTask(e, "b_model")
  /\ LET g == engines[e]
         m == g.models[g.mi]
     IN engines' = [engines EXCEPT ![e] =
          IF should_stop(g)
            THEN [g EXCEPT !.pc = "finalize"]
            ELSE [update_progress([g EXCEPT !.current_model = Some(m)])
                    EXCEPT !.pc = "b_warmup", !.late_calls = LateCall(g, "b_warmup"),
                           !.bench_calls = Append(@, WarmupCall(m))]]
  /\ UNCHANGED <<envVars, storeVars, coordVars, poolVars, faults>>

\* a variant that logs a failed warm-up and benchmarks the group all the same
T_BenchWarmupIgnoresFailure(e, ok) ==
  /\ IsTask(e, "b_warmup")
  /\ Fault(~ok)
  /\ engines' = [engines EXCEPT ![e] =
        [@ EXCEPT !.warmup_failed = @ \/ ~ok, !.ti = 1, !.pc = "b_task"]]
  /\ UNCHANGED <<envVars, storeVars, coordVars, poolVars>>

\* _warmup_model returns: False (warm_up returned False or raised) aborts the stage
T_BenchWarmup(e, ok) ==
  /\ IsTask(e, "b_warmup")
  /\ Fault(~ok)
  /\ engines' = [engines EXCEPT ![e] =
        IF ok THEN [@ EXCEPT !.ti = 1, !.pc = "b_task"]
              ELSE [@ EXCEPT !.warmup_failed = TRUE, !.pc = "finalize"]]
  /\ UNCHANGED <<envVars, storeVars, coordVars, poolVars>>

\* a variant whose benchmarking stage returns after a single task
AdvanceBenchOneTaskPerStage(g) == [g EXCEPT !.pc = "b_end"]

\* position after one benchmarking task: next task, next model, or the stage
\* returns True to _execute_benchmark
AdvanceBench(g) ==
  IF g.ti < Len(tasks_for_model(g.tasks, g.models[g.mi]))
    THEN [g EXCEPT !.ti = g.ti + 1, !.pc = "b_task"]
  ELSE IF g.mi < Len(g.models)
    THEN [g EXCEPT !.mi = g.mi + 1, !.ti = 0, !.pc = "b_model"]
  ELSE [g EXCEPT !.pc = "b_end"]

\* a variant in which the exception ends run() without its finally block
T_BenchEndUncaught(e, ok) ==
  /\ IsTask(e, "b_end")
  /\ Fault(~ok)
  /\ IF ok
       THEN /\ engines' = [engines EXCEPT ![e] =
                  [update_progress(@) EXCEPT !.stage = STAGE_JUDGING, !.pc = "j_load"]]
            /\ UNCHANGED poolVars
       ELSE PoolRelease(e, Finished([engines[e] EXCEPT !.stage = STAGE_FAILED]))
  /\ UNCHANGED <<envVars, storeVars, coordVars>>

\* _execute_benchmark between the stages: the progress emit, then the judging
\* stage is entered; an exception raised here is outside both stage functions
\* and reaches the handler of run(), which marks the stage FAILED
T_BenchEnd(e, ok) ==
  /\ IsTask(e, "b_end")
  /\ Fault(~ok)
  /\ engines' = [engines EXCEPT ![e] =
        IF ok THEN [update_progress(@) EXCEPT !.stage = STAGE_JUDGING, !.pc = "j_load",
                                              !.bench_calls = <<>>]
              ELSE [@ EXCEPT !.stage = STAGE_FAILED, !.pc = "finalize"]]
  /\ UNCHANGED <<envVars, storeVars, coordVars, poolVars>>

\* _update_failed_task: the row the except branch writes
FailedTaskRow(task, err) ==
  BenchmarkResult(task.result_id, task.run_id, task.task_id, task.model_name,
                  FAILED, task.llm_response, task.time_taken_ms,
                  task.tokens_generated, None, None, Some(err))

\* variant: the benchmarked row is stored with the judged status
WaitingRowAsCompleted(task, response) ==
  BenchmarkResult(task.result_id, task.run_id, task.task_id, task.model_name,
                  COMPLETED, Some(response.llm_response),
                  Some(response.time_taken_ms), Some(response.tokens_generated),
                  None, None, None)

\* _execute_benchmark_task: the row written after a returned inference
WaitingRow(task, response) ==
  BenchmarkResult(task.result_id, task.run_id, task.task_id, task.model_name,
                  WAITING_FOR_JUDGE, Some(response.llm_response),
                  Some(response.time_taken_ms), Some(response.tokens_generated),
                  None, None, None)

\* variant: the finally block counts the task twice
TaskCountedTwice(g) == update_progress([g EXCEPT !.completed_tasks = @ + 2])

\* finally block of the task loop
TaskCounted(g) == update_progress([g EXCEPT !.completed_tasks = @ + 1])

\* variant: a failed task ends the stage after its FAILED row is written
BenchTaskFailedAborts(e, g, task, fail_write_ok) ==
  /\ IF fail_write_ok THEN WriteRow(e, FailedTaskRow(task, "err"), FALSE)
                       ELSE UNCHANGED <<results, last_write>>
  /\ engines' = [engines EXCEPT ![e] =
        [TaskCounted(IF fail_write_ok THEN Wrote(g, FailedTaskRow(task, "err")) ELSE g)
           EXCEPT !.store_raised = @ \/ ~fail_write_ok, !.pc = "finalize"]]

\* except branch of the task loop, then its finally block: write FAILED; if
\* that write raises too, the stage-level handler returns False
BenchTaskFailed(e, g, task, fail_write_ok) ==
  IF fail_write_ok
    THEN /\ WriteRow(e, FailedTaskRow(task, "err"), FALSE)
         /\ engines' = [engines EXCEPT ![e] =
               AdvanceBench(TaskCounted(Wrote(g, FailedTaskRow(task, "err"))))]
    ELSE /\ UNCHANGED <<results, last_write>>
         /\ engines' = [engines EXCEPT ![e] =
               [TaskCounted(g) EXCEPT !.store_raised = TRUE, !.stage_raised = TRUE,
                                 !.pc = "finalize"]]

\* task loop head: stop check, build_prompt, then the inference call is started
T_BenchTask(e, o) ==
  /\ IsTask(e, "b_task")
  /\ LET g == engines[e]
         task == tasks_for_model(g.tasks, g.models[g.mi])[g.ti]
         g1 == [g EXCEPT !.current_task_id = Some(task.task_id),
                         !.bench_calls = Append(@, TaskCall(task))]
     IN IF should_stop(g)
          THEN /\ o = "ok"
               /\ engines' = [engines EXCEPT ![e].pc = "finalize"]
               /\ UNCHANGED <<results, last_write, faults>>
        ELSE /\ Fault(o # "ok")
             /\ IF o = "ok"
                  THEN /\ engines' = [engines EXCEPT ![e] =
                            [g1 EXCEPT !.pc = "b_infer", !.late_calls = LateCall(g, "b_infer")]]
                       /\ UNCHANGED <<results, last_write>>
                  ELSE BenchTaskFailed(e, [g1 EXCEPT !.raised = @ \cup {task.result_id}],
                                       task, o = "prompt_raise")
  /\ UNCHANGED <<envVars, runs, run_seq, coordVars, poolVars>>

\* the inference call returns (or raises); the row is written; finally block
T_BenchInfer(e, o) ==
  /\ IsTask(e, "b_infer")
  /\ Fault(o # "ok")
  /\ LET g == engines[e]
         task == tasks_for_model(g.tasks, g.models[g.mi])[g.ti]
         raises == o \in {"infer_raise", "infer_raise_store_down"}
         response == IF o = "has_error" THEN ErrorResponse ELSE GoodResponse
     IN IF o \in {"ok", "has_error"}
          THEN /\ WriteRow(e, WaitingRow(task, response), FALSE)
               /\ engines' = [engines EXCEPT ![e] =
                     AdvanceBench(TaskCounted(Wrote(
                       [g EXCEPT !.error_reported =
                          IF response.has_error THEN @ \cup {task.result_id} ELSE @],
                       WaitingRow(task, response))))]
          ELSE BenchTaskFailed(e,
                 [g EXCEPT !.raised = IF raises THEN @ \cup {task.result_id} ELSE @,
                           !.store_raised = @ \/ ~raises],
                 task, o \in {"infer_raise", "write_raise"})
  /\ UNCHANGED <<envVars, runs, run_seq, coordVars, poolVars>>

\* _execute_judging_for_tasks: load rows and the run, set counters, start warm-up
T_JudgeLoad(e, store_ok) ==
  /\ IsTask(e, "j_load")
  /\ Fault(~store_ok)
  /\ LET g == engines[e]
         all_tasks == retrieve_benchmark_results_for_run(results, g.run_id)
         tasks_to_judge == retrieve_benchmark_results_for_run_with_status(
                             results, g.run_id, WAITING_FOR_JUDGE)
         judge_model == runs[g.run_id].judge_model
         g1 == update_progress([g EXCEPT !.total_tasks = Len(all_tasks),
                   !.completed_tasks = Len(all_tasks) - Len(tasks_to_judge),
                   !.current_model = Some(judge_model)])
     IN engines' = [engines EXCEPT ![e] =
          IF ~store_ok \/ g.run_id \notin DOMAIN runs
            THEN [g EXCEPT !.pc = "finalize", !.store_raised = TRUE,
                         !.stage_raised = TRUE]
          ELSE IF tasks_to_judge = <<>>
            THEN [g1 EXCEPT !.pc = "finalize"]
          ELSE [g1 EXCEPT !.tasks = tasks_to_judge, !.models = <<>>, !.mi = 0,
                          !.ti = 1, !.pc = "j_warmup",
                          !.late_calls = LateCall(g, "j_warmup")]]
  /\ UNCHANGED <<envVars, storeVars, coordVars, poolVars>>

T_JudgeWarmup(e, ok) ==
  /\ IsTask(e, "j_warmup")
  /\ Fault(~ok)
  /\ engines' = [engines EXCEPT ![e] =
        IF ok THEN [@ EXCEPT !.pc = "j_task"]
              ELSE [@ EXCEPT !.warmup_failed = TRUE, !.pc = "finalize"]]
  /\ UNCHANGED <<envVars, storeVars, coordVars, poolVars>>

\* a variant whose judging stage returns after a single task
AdvanceJudgeOneTaskPerStage(g) == [update_progress(g) EXCEPT !.pc = "finalize"]

\* position after one judged task: next task, or the stage returns True and
\* _execute_benchmark emits progress and returns to run()
AdvanceJudge(g) ==
  IF g.ti < Len(g.tasks)
    THEN [g EXCEPT !.ti = g.ti + 1, !.pc = "j_task"]
    ELSE [update_progress(g) EXCEPT !.pc = "finalize"]

\* variant: the judged row is rebuilt without the benchmarked response
JudgedRowWithoutResponse(task, grade, reason) ==
  BenchmarkResult(task.result_id, task.run_id, task.task_id, task.model_name,
                  COMPLETED, None, None, None, Some(grade), Some(reason), None)

\* _judge_task: the row written after parse_judge_response returned
JudgedRow(task, grade, reason) ==
  BenchmarkResult(task.result_id, task.run_id, task.task_id, task.model_name,
                  COMPLETED, task.llm_response, task.time_taken_ms,
                  task.tokens_generated, Some(grade), Some(reason), None)

\* variant: the failed judging keeps a score of zero next to the error
JudgeFailedRowWithScore(task, err) ==
  BenchmarkResult(task.result_id, task.run_id, task.task_id, task.model_name,
                  FAILED, task.llm_response, task.time_taken_ms,
                  task.tokens_generated, Some(0), None, Some(<<"Evaluation failed", err>>))

\* _update_judge_failed
JudgeFailedRow(task, err) ==
  BenchmarkResult(task.result_id, task.run_id, task.task_id, task.model_name,
                  FAILED, task.llm_response, task.time_taken_ms,
                  task.tokens_generated, None, None, Some(<<"Evaluation failed", err>>))

JudgeTaskFailed(e, g, task, fail_write_ok) ==
  IF fail_write_ok
    THEN /\ WriteRow(e, JudgeFailedRow(task, "err"), FALSE)
         /\ engines' = [engines EXCEPT ![e] =
               AdvanceJudge(TaskCounted(Wrote(g, JudgeFailedRow(task, "err"))))]
    ELSE /\ UNCHANGED <<results, last_write>>
         /\ engines' = [engines EXCEPT ![e] =
               [TaskCounted(g) EXCEPT !.store_raised = TRUE, !.stage_raised = TRUE,
                                 !.pc = "finalize"]]

\* judging loop head: stop check, build_judge_prompt, inference call started
T_JudgeTask(e, o) ==
  /\ IsTask(e, "j_task")
  /\ LET g == engines[e]
         task == g.tasks[g.ti]
         g1 == [g EXCEPT !.current_task_id = Some(task.task_id)]
     IN IF should_stop(g)
          THEN /\ o = "ok"
               /\ engines' = [engines EXCEPT ![e].pc = "finalize"]
               /\ UNCHANGED <<results, last_write, faults>>
        ELSE /\ Fault(o # "ok")
             /\ IF o = "ok"
                  THEN /\ engines' = [engines EXCEPT ![e] =
                            [g1 EXCEPT !.pc = "j_infer", !.judge_called = TRUE,
                                       !.late_calls = LateCall(g, "j_infer")]]
                       /\ UNCHANGED <<results, last_write>>
                  ELSE JudgeTaskFailed(e, g1, task, o = "prompt_raise")
  /\ UNCHANGED <<envVars, runs, run_seq, coordVars, poolVars>>

\* the judge inference returns (or raises), the response is parsed, the row written
T_JudgeInfer(e, o, text) ==
  /\ IsTask(e, "j_infer")
  /\ o # "returns" => text = WellFormedText
  /\ Fault(o # "returns" \/ text # WellFormedText)
  /\ LET g == engines[e]
         task == g.tasks[g.ti]
         parsed == EngineParsed[text]
     IN IF o = "returns" /\ ~parsed.raised
          THEN /\ WriteRow(e, JudgedRow(task, parsed.grade, parsed.reason), parsed.has_error)
               /\ engines' = [engines EXCEPT ![e] =
                     AdvanceJudge(TaskCounted(Wrote(g, JudgedRow(task, parsed.grade, parsed.reason))))]
          ELSE JudgeTaskFailed(e,
                 [g EXCEPT !.store_raised = @ \/ o \in {"write_raise", "store_down"}],
                 task, o \in {"returns", "infer_raise", "write_raise"})
  /\ UNCHANGED <<envVars, runs, run_seq, coordVars, poolVars>>

\* variant: the finally block also marks the run COMPLETED once no row of it
\* is left to process
T_FinalizeMarksRun(e) ==
  /\ IsTask(e, "finalize")
  /\ LET g == engines[e]
         g1 == update_progress([g EXCEPT !.stage = IF g.stage = STAGE_FAILED
                                                     THEN STAGE_FAILED ELSE STAGE_FINISHED,
                                         !.current_task_id = None,
                                         !.current_model = None,
                                         !.stop_requested = TRUE,
                                         !.status_changed = Some(FALSE)])
         left == {rid \in DOMAIN results :
                    /\ results[rid].run_id = g.run_id
                    /\ results[rid].status \in {NOT_COMPLETED, WAITING_FOR_JUDGE}}
     IN /\ PoolRelease(e, Finished(g1))
        /\ runs' = IF left = {} THEN [runs EXCEPT ![g.run_id].status = COMPLETED] ELSE runs
  /\ emit_status(e, FALSE)
  /\ UNCHANGED <<envVars, run_seq, results, last_write, coordOwnVars, faults>>

\* variant: run() leaves _stage as the stage functions set it
T_FinalizeKeepsStage(e) ==
  /\ IsTask(e, "finalize")
  /\ LET g == engines[e]
         g1 == update_progress([g EXCEPT !.current_task_id = None,
                                         !.current_model = None,
                                         !.stop_requested = TRUE,
                                         !.status_changed = Some(FALSE)])
     IN PoolRelease(e, Finished(g1))
  /\ emit_status(e, FALSE)
  /\ UNCHANGED <<envVars, storeVars, coordOwnVars, faults>>

\* run(): stage marker, then the finally block; the pool thread is released
T_Finalize(e) ==
  /\ IsTask(e, "finalize")
  /\ LET g == engines[e]
         g1 == update_progress([g EXCEPT !.stage = IF g.stage = STAGE_FAILED
                                                     THEN STAGE_FAILED ELSE STAGE_FINISHED,
                                         !.current_task_id = None,
                                         !.current_model = None,
                                         !.stop_requested = TRUE,
                                         !.status_changed = Some(FALSE)])
     IN PoolRelease(e, Finished(g1))
  /\ emit_status(e, FALSE)
  /\ UNCHANGED <<envVars, storeVars, coordOwnVars, faults>>

TaskEngineStep(e) ==
  \/ T_Run(e)
  \/ T_BenchStage(e)
  \/ \E store_ok \in BOOLEAN : T_BenchLoad(e, store_ok)
  \/ T_BenchModel(e)
  \/ \E ok \in BOOLEAN : T_BenchWarmup(e, ok)
  \/ \E o \in BenchPromptOutcomes : T_BenchTask(e, o)
  \/ \E o \in BenchInferOutcomes : T_BenchInfer(e, o)
  \/ \E ok \in BOOLEAN : T_BenchEnd(e, ok)
  \/ \E store_ok \in BOOLEAN : T_JudgeLoad(e, store_ok)
  \/ \E ok \in BOOLEAN : T_JudgeWarmup(e, ok)
  \/ \E o \in BenchPromptOutcomes : T_JudgeTask(e, o)
  \/ \E o \in JudgeInferOutcomes : \E text \in EngineJudgeTexts : T_JudgeInfer(e, o, text)
  \/ T_Finalize(e)

\* --------------- engine class defined inside qt_benchmark_flow.py ("flow")
IsFlow(e, pc) == engines[e].cls = "flow" /\ engines[e].pc = pc

\* run(): status_changed(True), then _execute_benchmark emits _update_progress(0, 100)
F_Run(e) ==
  /\ IsFlow(e, "run")
  /\ LET g == engines[e]
     IN engines' = [engines EXCEPT ![e] =
          [update_progress(g) EXCEPT !.pc = "f_load", !.status_changed = Some(TRUE),
                                     !.run_start = StatusSnapshot(g.run_id)]]
  /\ emit_status(e, TRUE)
  /\ UNCHANGED <<envVars, storeVars, coordOwnVars, poolVars, faults>>

\* load every row of the run and group all of them by model
F_Load(e, store_ok) ==
  /\ IsFlow(e, "f_load")
  /\ Fault(~store_ok)
  /\ LET g == engines[e]
         all_tasks == retrieve_benchmark_results_for_run(results, g.run_id)
     IN engines' = [engines EXCEPT ![e] =
          IF ~store_ok
            THEN [g EXCEPT !.pc = "finalize", !.store_raised = TRUE]
          ELSE IF Len(all_tasks) = 0
            THEN [g EXCEPT !.total_tasks = 0, !.pc = "finalize"]
          ELSE [update_progress([g EXCEPT !.total_tasks = Len(all_tasks),
                                          !.completed_tasks = 0])
                  EXCEPT !.tasks = all_tasks,
                         !.models = group_tasks_by_model(all_tasks),
                         !.mi = 1, !.ti = 0, !.pc = "f_model"]]
  /\ UNCHANGED <<envVars, storeVars, coordVars, poolVars>>

\* model loop head: stop check, then warm-up is started
F_Model(e) ==
  /\ IsFlow(e, "f_model")
  /\ LET g == engines[e]
     IN engines' = [engines EXCEPT ![e] =
          IF g.stop_requested
            THEN [g EXCEPT !.pc = "finalize"]
            ELSE [g EXCEPT !.current_model = Some(g.models[g.mi]), !.pc = "f_warmup",
                           !.late_calls = LateCall(g, "b_warmup")]]
  /\ UNCHANGED <<envVars, storeVars, coordVars, poolVars, faults>>

\* warm_up returns or raises: either way only logged
F_Warmup(e, ok) ==
  /\ IsFlow(e, "f_warmup")
  /\ Fault(~ok)
  /\ engines' = [engines EXCEPT ![e] =
        [@ EXCEPT !.warmup_failed = @ \/ ~ok, !.pc = "f_model2"]]
  /\ UNCHANGED <<envVars, storeVars, coordVars, poolVars>>

\* second stop check of the model loop, after warm-up
F_Model2(e) ==
  /\ IsFlow(e, "f_model2")
  /\ engines' = [engines EXCEPT ![e] =
        IF @.stop_requested THEN [@ EXCEPT !.pc = "finalize"]
                            ELSE [@ EXCEPT !.ti = 1, !.pc = "f_task"]]
  /\ UNCHANGED <<envVars, storeVars, coordVars, poolVars, faults>>

\* next iteration of the model loop, or the stop check that precedes judging
F_NextModel(g) ==
  IF g.mi < Len(g.models)
    THEN [g EXCEPT !.mi = g.mi + 1, !.ti = 0, !.pc = "f_model"]
    ELSE [g EXCEPT !.pc = "f_jcheck"]

F_NextTask(g) ==
  IF g.ti < Len(tasks_for_model(g.tasks, g.models[g.mi]))
    THEN [g EXCEPT !.ti = g.ti + 1, !.pc = "f_task"]
    ELSE F_NextModel(g)

\* task loop head: stop check (break), skip of COMPLETED rows, inference started
F_Task(e) ==
  /\ IsFlow(e, "f_task")
  /\ LET g == engines[e]
         task == tasks_for_model(g.tasks, g.models[g.mi])[g.ti]
         g1 == [g EXCEPT !.current_task_id = Some(task.task_id)]
     IN engines' = [engines EXCEPT ![e] =
          IF g.stop_requested
            THEN F_NextModel(g)
          ELSE IF task.status = COMPLETED
            THEN F_NextTask(TaskCounted(g1))
          ELSE [update_progress(g1) EXCEPT !.pc = "f_infer",
                                           !.late_calls = LateCall(g, "b_infer")]]
  /\ UNCHANGED <<envVars, storeVars, coordVars, poolVars, faults>>

\* the row written by the except branch of the benchmarking loop
FlowFailedRow(task, err) ==
  BenchmarkResult(task.result_id, task.run_id, task.task_id, task.model_name,
                  FAILED, Some(""), None, None, None, None, Some(err))

\* inference returns or raises; the row is written; an exception raised by
\* the except branch itself escapes _execute_benchmark
F_Infer(e, o) ==
  /\ IsFlow(e, "f_infer")
  /\ Fault(o # "ok")
  /\ LET g == engines[e]
         task == tasks_for_model(g.tasks, g.models[g.mi])[g.ti]
         response == IF o = "has_error" THEN ErrorResponse ELSE GoodResponse
     IN IF o \in {"ok", "has_error"}
          THEN /\ WriteRow(e, WaitingRow(task, response), FALSE)
               /\ engines' = [engines EXCEPT ![e] =
                     F_NextTask(TaskCounted(Wrote(g, WaitingRow(task, response))))]
        ELSE IF o \in {"infer_raise", "write_raise"}
          THEN /\ WriteRow(e, FlowFailedRow(task, "err"), FALSE)
               /\ engines' = [engines EXCEPT ![e] =
                     F_NextTask(TaskCounted(Wrote(g, FlowFailedRow(task, "err"))))]
        ELSE /\ UNCHANGED <<results, last_write>>
             /\ engines' = [engines EXCEPT ![e] =
                   [g EXCEPT !.store_raised = TRUE, !.pc = "finalize"]]
  /\ UNCHANGED <<envVars, runs, run_seq, coordVars, poolVars>>

\* stop check before judging, reload of the rows, counters reset for judging
F_JudgeCheck(e, store_ok) ==
  /\ IsFlow(e, "f_jcheck")
  /\ LET g == engines[e]
         all_tasks == retrieve_benchmark_results_for_run(results, g.run_id)
         waiting == retrieve_benchmark_results_for_run_with_status(
                      results, g.run_id, WAITING_FOR_JUDGE)
     IN IF g.stop_requested
          THEN /\ store_ok
               /\ engines' = [engines EXCEPT ![e].pc = "finalize"]
               /\ UNCHANGED faults
          ELSE /\ Fault(~store_ok)
               /\ engines' = [engines EXCEPT ![e] =
                    IF ~store_ok \/ g.run_id \notin DOMAIN runs
                      THEN [g EXCEPT !.store_raised = TRUE, !.pc = "finalize"]
                    ELSE IF Len(waiting) > 0
                      THEN [g EXCEPT !.completed_tasks = 0, !.total_tasks = Len(waiting),
                                     !.tasks = all_tasks, !.models = <<>>, !.mi = 0,
                                     !.ti = 1, !.pc = "f_jtask"]
                    ELSE [g EXCEPT !.completed_tasks = 0, !.total_tasks = 0,
                                   !.pc = "finalize"]]
  /\ UNCHANGED <<envVars, storeVars, coordVars, poolVars>>

F_NextJudge(g) ==
  IF g.ti < Len(g.tasks)
    THEN [g EXCEPT !.ti = g.ti + 1, !.pc = "f_jtask"]
    ELSE [g EXCEPT !.pc = "finalize"]

\* judging loop head: stop check, skip of rows not WAITING_FOR_JUDGE, inference started
F_JudgeTask(e) ==
  /\ IsFlow(e, "f_jtask")
  /\ LET g == engines[e]
         task == g.tasks[g.ti]
     IN engines' = [engines EXCEPT ![e] =
          IF g.stop_requested
            THEN [g EXCEPT !.pc = "finalize"]
          ELSE IF task.status # WAITING_FOR_JUDGE
            THEN F_NextJudge(g)
          ELSE [g EXCEPT !.current_task_id = Some(task.task_id),
                         !.current_model = Some(task.model_name),
                         !.pc = "f_jinfer", !.judge_called = TRUE,
                         !.late_calls = LateCall(g, "j_infer")]]
  /\ UNCHANGED <<envVars, storeVars, coordVars, poolVars, faults>>

GradeOutOfRange == 150

\* the inline parse of the judging loop: json.loads on the raw text, defaults
\* for missing fields, no range check; a non-object value raises AttributeError
flow_parse(t) ==
  LET grade == python_float(IF t.grade = JAbsent THEN JNum(0) ELSE t.grade)
  IN IF t.wrap = "plain" /\ t.json \notin {"object", "malformed"}
       THEN [raised |-> TRUE, has_error |-> TRUE, grade |-> 0, reason |-> "diag"]
     ELSE IF t.wrap # "plain" \/ t.json = "malformed" \/ ~grade.ok
             \/ t.reason.k \notin {"absent", "str"}
       THEN ParseFailure
     ELSE [raised |-> FALSE, has_error |-> FALSE,
           grade |-> IF grade.nan THEN GradeOutOfRange ELSE grade.n,
           reason |-> t.reason.s]

F_JudgeInfer(e, o, text) ==
  /\ IsFlow(e, "f_jinfer")
  /\ o # "returns" => text = WellFormedText
  /\ Fault(o # "returns" \/ text # WellFormedText)
  /\ LET g == engines[e]
         task == g.tasks[g.ti]
         parsed == flow_parse(text)
     IN IF o = "returns" /\ ~parsed.raised
          THEN /\ WriteRow(e, JudgedRow(task, parsed.grade, parsed.reason), parsed.has_error)
               /\ engines' = [engines EXCEPT ![e] =
                     F_NextJudge(TaskCounted(Wrote(g, JudgedRow(task, parsed.grade, parsed.reason))))]
        ELSE IF o \in {"returns", "infer_raise", "write_raise"}
          THEN /\ WriteRow(e, JudgeFailedRow(task, "err"), FALSE)
               /\ engines' = [engines EXCEPT ![e] =
                     F_NextJudge(TaskCounted(Wrote(g, JudgeFailedRow(task, "err"))))]
        ELSE /\ UNCHANGED <<results, last_write>>
             /\ engines' = [engines EXCEPT ![e] =
                   [g EXCEPT !.store_raised = TRUE, !.pc = "finalize"]]
  /\ UNCHANGED <<envVars, runs, run_seq, coordVars, poolVars>>

\* run(): finally block emits status_changed(False); the stop flag is not touched
F_Finalize(e) ==
  /\ IsFlow(e, "finalize")
  /\ PoolRelease(e, Finished([engines[e] EXCEPT !.status_changed = Some(FALSE)]))
  /\ emit_status(e, FALSE)
  /\ UNCHANGED <<envVars, storeVars, coordOwnVars, faults>>

FlowEngineStep(e) ==
  \/ F_Run(e)
  \/ \E store_ok \in BOOLEAN : F_Load(e, store_ok)
  \/ F_Model(e)
  \/ \E ok \in BOOLEAN : F_Warmup(e, ok)
  \/ F_Model2(e)
  \/ F_Task(e)
  \/ \E o \in BenchInferOutcomes : F_Infer(e, o)
  \/ \E store_ok \in BOOLEAN : F_JudgeCheck(e, store_ok)
  \/ F_JudgeTask(e)
  \/ \E o \in JudgeInferOutcomes : \E text \in EngineJudgeTexts : F_JudgeInfer(e, o, text)
  \/ F_Finalize(e)

\* ------------------------------------------------------------ subscribers
MaxRelayed == 1

\* subscribe_to_benchmark_status_events: connect, then callback(self.is_running())
subscribe_to_benchmark_status_events ==
  /\ ~main_thread_busy
  /\ ~status_events.callback.connected
  /\ status_events' = [status_events EXCEPT
        !.callback = [connected |-> TRUE, received |-> <<is_running>>]]
  /\ UNCHANGED <<envVars, storeVars, engines, coordOwnVars, poolVars, faults>>

\* subscribe_to_benchmark_output_events: connect only
subscribe_to_benchmark_output_events ==
  /\ ~main_thread_busy
  /\ ~subscriptions.output.connected
  /\ subscriptions' = [subscriptions EXCEPT !.output.connected = TRUE]
  /\ UNCHANGED <<engineClass, parse_call, warm_up_call, storeVars, engines, coordVars,
                 poolVars, faults>>

\* the ReporterStatusMsg counters the connected engine emitted last
ProgressSnapshot(g) == [completed |-> g.last_completed, total |-> g.last_total]

\* variant: the branch for a running benchmark hands the current progress
\* to the new callback
subscribe_to_benchmark_progress_events_replay ==
  /\ ~main_thread_busy
  /\ ~subscriptions.progress.connected
  /\ subscriptions' = [subscriptions EXCEPT !.progress =
        [connected |-> TRUE,
         received |-> IF is_running /\ engines[current_task].emitted
                        THEN <<ProgressSnapshot(engines[current_task])>> ELSE <<>>]]
  /\ UNCHANGED <<engineClass, parse_call, warm_up_call, storeVars, engines, coordVars,
                 poolVars, faults>>

\* subscribe_to_benchmark_progress_events: connect; the branch taken while a
\* benchmark is running is `pass`
subscribe_to_benchmark_progress_events ==
  /\ ~main_thread_busy
  /\ ~subscriptions.progress.connected
  /\ subscriptions' = [subscriptions EXCEPT !.progress.connected = TRUE]
  /\ UNCHANGED <<engineClass, parse_call, warm_up_call, storeVars, engines, coordVars,
                 poolVars, faults>>

\* the event loop of the coordinator's thread relays a log_message the
\* connected engine has emitted (the first one follows the load of the rows,
\* BenchmarkExecutionTask.stop emits one too)
relay_output_event ==
  /\ ~main_thread_busy
  /\ subscriptions.output.connected
  /\ Len(subscriptions.output.received) < MaxRelayed
  /\ current_task # NoTask
  /\ \/ engines[current_task].pc \notin {"none", "run", "f_load"}
     \/ engines[current_task].user_stop
  /\ subscriptions' = [subscriptions EXCEPT !.output.received = Append(@, "log_message")]
  /\ UNCHANGED <<engineClass, parse_call, warm_up_call, storeVars, engines, coordVars,
                 poolVars, faults>>

\* the event loop relays a progress event the connected engine has emitted
relay_progress_event ==
  /\ ~main_thread_busy
  /\ subscriptions.progress.connected
  /\ Len(subscriptions.progress.received) < MaxRelayed
  /\ current_task # NoTask
  /\ engines[current_task].emitted
  /\ subscriptions' = [subscriptions EXCEPT
        !.progress.received = Append(@, ProgressSnapshot(engines[current_task]))]
  /\ UNCHANGED <<engineClass, parse_call, warm_up_call, storeVars, engines, coordVars,
                 poolVars, faults>>

\* ------------------------------------------------------------ UI handlers
ClickOutcomes == {"ok", "unavailable", "run_raise", "rows_raise"}

\* NewRunWidgetController.handle_start_click up to its call of start_execution:
\* the guards, the run record, one result row per selected model and loaded task
handle_start_click(models, o) ==
  /\ coord_pc = "idle"
  /\ click.pc = "idle"
  /\ run_seq < InitialRunSeq + MaxNewRuns
  /\ Cardinality(Constructed) < MaxEngines
  /\ IF is_running \/ o = "unavailable" \/ models = <<>>
       THEN \* a message on the event bus, nothing else
            /\ faults' = faults
            /\ UNCHANGED <<runs, run_seq, results, click>>
     ELSE IF o = "run_raise"
       THEN /\ Fault(TRUE)
            /\ UNCHANGED <<runs, run_seq, results, click>>
     ELSE /\ runs' = create_benchmark_run(runs, run_seq, JudgeModel)
          /\ run_seq' = run_seq + 1
          /\ IF o = "rows_raise"
               THEN /\ Fault(TRUE)
                    /\ UNCHANGED <<results, click>>
               ELSE /\ faults' = faults
                    /\ results' = create_benchmark_results(
                                     results, NewRunRows(run_seq + 1, models, load_tasks))
                    /\ click' = [pc |-> "start", run_id |-> run_seq + 1, models |-> models]
  /\ UNCHANGED <<envVars, engines, current_task, current_run_id, last_call,
                 last_busy, coord_pc, start_emit, status_events, poolVars, last_write>>

\* the last statement of handle_start_click: benchmark_flow_api.start_execution(run_id)
handle_start_click_start ==
  /\ click.pc = "start"
  /\ start_execution(click.run_id)
  /\ click' = [click EXCEPT !.pc = "idle"]

\* ResultWidgetController.handle_delete_click on the selected run
handle_delete_click(selected_run_id) ==
  /\ coord_pc = "idle"
  /\ click.pc = "idle"
  /\ runs' = IF selected_run_id = NoRun THEN runs
                                         ELSE delete_benchmark_run(runs, selected_run_id)
  /\ UNCHANGED <<envVars, run_seq, results, last_write, engines, coordVars,
                 poolVars, faults>>

\* the run ids the result widget can hold as its selection
SelectableRuns == 0..(InitialRunSeq + MaxNewRuns)

Next ==
  \/ \E run_id \in RunIdInputs : start_execution(run_id) /\ UNCHANGED click
  \/ start_execution_emit
  \/ stop_execution
  \/ \E e \in EngineIds : TaskEngineStep(e)
  \/ \E e \in EngineIds : FlowEngineStep(e)

Spec == Init /\ [][Next]_vars

\* the program with BenchmarkExecutionTask bound to qt_benchmark_execution_task.py
TaskInit == Init /\ engineClass = "task"

TaskNext ==
  \/ \E run_id \in RunIdInputs : start_execution(run_id) /\ UNCHANGED click
  \/ start_execution_emit
  \/ stop_execution
  \/ \E e \in EngineIds : TaskEngineStep(e)

TaskSpec == TaskInit /\ [][TaskNext]_vars

\* the same program driven with the stored NOT_COMPLETED run only: a call of
\* start_execution with any other run id raises ValueError before an engine
\* exists and leaves every engine as it is
TaskFairNext ==
  \/ start_execution(ExistingRun) /\ UNCHANGED click
  \/ start_execution_emit
  \/ stop_execution
  \/ \E e \in EngineIds : TaskEngineStep(e)

\* the worker thread of the pool keeps executing run(): every call it makes
\* returns or raises, so a step of a started engine is eventually taken
TaskFairSpec ==
  TaskInit /\ [][TaskFairNext]_vars /\ \A e \in EngineIds : WF_vars(TaskEngineStep(e))

\* the program with BenchmarkExecutionTask bound to the class in qt_benchmark_flow.py
FlowInit == Init /\ engineClass = "flow"

FlowNext ==
  \/ \E run_id \in RunIdInputs : start_execution(run_id) /\ UNCHANGED click
  \/ start_execution_emit
  \/ stop_execution
  \/ \E e \in EngineIds : FlowEngineStep(e)

FlowSpec == FlowInit /\ [][FlowNext]_vars

\* the coordinator with callbacks being subscribed while it runs the engine
\* class start_execution instantiates
SubscribeNext ==
  \/ start_execution(ExistingRun) /\ UNCHANGED click
  \/ start_execution_emit
  \/ stop_execution
  \/ \E e \in EngineIds : FlowEngineStep(e)
  \/ subscribe_to_benchmark_status_events
  \/ subscribe_to_benchmark_output_events
  \/ subscribe_to_benchmark_progress_events
  \/ relay_output_event
  \/ relay_progress_event

\* the collaborators of the engine do not fail in these runs
SubscribeInit ==
  /\ engineClass = "flow"
  /\ parse_call = NoParse
  /\ warm_up_call = NewWarmup(JudgeModel)
  /\ ProgramStart(MaxFaults)

SubscribeSpec == SubscribeInit /\ [][SubscribeNext]_vars

\* the program driven from its widgets: new runs are created and started by
\* handle_start_click, runs are deleted by handle_delete_click
UiNext ==
  \/ \E models \in ModelSelections, o \in ClickOutcomes : handle_start_click(models, o)
  \/ handle_start_click_start
  \/ start_execution_emit
  \/ click.pc = "idle" /\ stop_execution
  \/ \E selected_run_id \in SelectableRuns : handle_delete_click(selected_run_id)
  \/ \E e \in EngineIds : TaskEngineStep(e)

UiSpec == TaskInit /\ [][UiNext]_vars

\* parse_judge_response on its own: any judge text goes in, the call returns or raises
ParseInit ==
  /\ parse_call \in [input : JudgeTexts, result : {None}]
  /\ warm_up_call = NewWarmup(JudgeModel)
  /\ engineClass = "task"
  /\ ProgramInit

parse_judge_response_call ==
  /\ parse_call.result = None
  /\ parse_call' = [parse_call EXCEPT !.result = Some(parse_judge_response(parse_call.input))]
  /\ UNCHANGED <<engineClass, warm_up_call, subscriptions, storeVars, engines, coordVars, poolVars, faults>>

ParseSpec == ParseInit /\ [][parse_judge_response_call]_vars

\* OllamaApi.warm_up on its own: a model name goes in, every generate call
\* ends in one of its outcomes
WarmupInit ==
  /\ warm_up_call \in {NewWarmup(model) : model \in ModelNames \cup {JudgeModel}}
  /\ parse_call = NoParse
  /\ engineClass = "task"
  /\ ProgramInit

warm_up_generate(o) ==
  /\ warm_up_call.pc = "generate"
  /\ warm_up_call' = warm_up_step(warm_up_call, o)
  /\ UNCHANGED <<engineClass, parse_call, subscriptions, storeVars, engines, coordVars, poolVars, faults>>

warm_up_sleep ==
  /\ warm_up_call.pc = "sleep"
  /\ warm_up_call' = warm_up_wake(warm_up_call)
  /\ UNCHANGED <<engineClass, parse_call, subscriptions, storeVars, engines, coordVars, poolVars, faults>>

WarmupNext ==
  \/ \E o \in GenerateOutcomes : warm_up_generate(o)
  \/ warm_up_sleep

WarmupSpec == WarmupInit /\ [][WarmupNext]_vars

\* ============================================================== properties
RunRows(run) == {rid \in DOMAIN results : results[rid].run_id = run}

InRunBody == {e \in EngineIds : engines[e].pc \notin {"none", "queued", "done"}}

IsTaskEngine(e) == engines[e].cls = "task" /\ engines[e].pc # "none"

\* C1: an engine of qt_benchmark_execution_task.py that is started on a run
\* with no NOT_COMPLETED row and at least one WAITING_FOR_JUDGE row, and is
\* not stopped, goes on to the judging stage: when its run() body is about to
\* return, none of the run's rows is still WAITING_FOR_JUDGE.
C1_JudgeOnlyRunIsJudged ==
  \A e \in EngineIds :
    (IsTask(e, "finalize") /\ engines[e].judge_only /\ ~engines[e].user_stop
       /\ ~engines[e].store_raised /\ ~engines[e].warmup_failed)
    => \A rid \in RunRows(engines[e].run_id) : results[rid].status # WAITING_FOR_JUDGE

AllowedEdges ==
  { <<NOT_COMPLETED, WAITING_FOR_JUDGE>>, <<NOT_COMPLETED, FAILED>>,
    <<WAITING_FOR_JUDGE, COMPLETED>>, <<WAITING_FOR_JUDGE, FAILED>> }

\* C2: every row write of the engine of qt_benchmark_execution_task.py moves
\* the row's status along NOT_COMPLETED -> WAITING_FOR_JUDGE, NOT_COMPLETED ->
\* FAILED, WAITING_FOR_JUDGE -> COMPLETED or WAITING_FOR_JUDGE -> FAILED; a row
\* that is COMPLETED or FAILED is never written again.
C2_StatusTransitions ==
  (last_write.engine # 0 /\ engines[last_write.engine].cls = "task")
    => <<last_write.from, last_write.to>> \in AllowedEdges

\* a resumed invocation fails a judged row while another row is already COMPLETED
C2_Witness ==
  /\ last_write.engine # 0
  /\ engines[last_write.engine].cls = "task"
  /\ last_write.from = WAITING_FOR_JUDGE
  /\ last_write.to = FAILED
  /\ \E rid \in DOMAIN results : results[rid].status = COMPLETED

\* C3: the engine of qt_benchmark_execution_task.py calls inference only for
\* rows whose status as loaded at the start of the stage is NOT_COMPLETED
\* (benchmarking) or WAITING_FOR_JUDGE (judging), and a row that was COMPLETED
\* when the invocation started is neither passed to inference nor written.
C3_OnlyPendingRowsProcessed ==
  \A e \in EngineIds :
    IsTaskEngine(e) =>
      LET g == engines[e]
      IN /\ g.pc = "b_infer" =>
              LET t == tasks_for_model(g.tasks, g.models[g.mi])[g.ti]
              IN t.status = NOT_COMPLETED /\ g.run_start[t.result_id] # COMPLETED
         /\ g.pc = "j_infer" =>
              LET t == g.tasks[g.ti]
              IN t.status = WAITING_FOR_JUDGE /\ g.run_start[t.result_id] # COMPLETED
         /\ (g.pc \notin {"queued", "run", "done"} /\ last_write.engine = e)
              => g.run_start[last_write.result_id] # COMPLETED

\* a re-invocation on a partly processed run has an inference call in flight
C3_Witness ==
  \E e \in EngineIds :
    /\ IsTask(e, "b_infer")
    /\ \E rid \in DOMAIN engines[e].run_start : engines[e].run_start[rid] # NOT_COMPLETED

\* C4: start_execution called while the held engine has not finished and no
\* stop was requested raises AlreadyRunning and constructs no engine; the held
\* engine reference, the current run id, the engines and the pool are unchanged.
C4_StartWhileRunningRejected ==
  [][\A run_id \in RunIdInputs :
       (/\ current_task # NoTask
        /\ engines[current_task].pc # "done"
        /\ ~engines[current_task].stop_requested
        /\ start_execution(run_id))
       => /\ last_call' = "AlreadyRunning"
          /\ UNCHANGED <<engines, current_task, current_run_id, pool_active,
                         pool_queue, results>>]_vars

C4_Witness ==
  /\ last_call = "AlreadyRunning"
  /\ current_task # NoTask
  /\ engines[current_task].pc \notin {"none", "queued", "done"}
  /\ ~engines[current_task].stop_requested
  /\ Cardinality(Constructed) = 1

\* C5: at any time at most one engine's run() body is executing, whatever the
\* sequence of start_execution and stop_execution calls.
C5_AtMostOneRunBody == Cardinality(InRunBody) <= 1

\* a second engine was submitted while the stopped first one is still running
C5_Witness == pool_queue # <<>> /\ Cardinality(InRunBody) = 1

\* C6: once the engine that start_execution submitted has finished without a
\* stop request, is_running() is false (so a following start_execution on a
\* NOT_COMPLETED run is accepted).
C6_FinishedEngineNotRunning ==
  \A e \in EngineIds :
    (e = current_task /\ engines[e].pc = "done" /\ ~engines[e].user_stop) => ~is_running

\* C7: when prompt building or inference raises for one task of a model's
\* benchmarking loop (and the store accepts the write), that row is FAILED with
\* a non-null error_message, the stage is not aborted by it (only a stop, a
\* warm-up failure or a store failure ends the stage early), and when the stage
\* ends every task it loaded has been processed.
C7_TaskFailureDoesNotAbortStage ==
  \A e \in EngineIds :
    IsTaskEngine(e) =>
      LET g == engines[e]
      IN /\ ~g.store_raised =>
              \A rid \in g.raised : /\ results[rid].status = FAILED
                                    /\ results[rid].error_message # None
         /\ (g.pc = "finalize" /\ g.stage = STAGE_BENCHMARKING /\ g.raised # {})
              => (g.user_stop \/ g.warmup_failed \/ g.store_raised)
         /\ g.pc = "j_load" =>
              \A i \in 1..Len(g.tasks) :
                results[g.tasks[i].result_id].status \in {WAITING_FOR_JUDGE, FAILED}

\* the benchmarking stage completed although an earlier task of a group raised;
\* a later task of the same group was benchmarked after it
C7_Witness ==
  \E e \in EngineIds :
    /\ IsTask(e, "j_load")
    /\ ~engines[e].user_stop
    /\ \E rid \in engines[e].raised : \E other \in DOMAIN results :
         /\ other > rid
         /\ results[other].model_name = results[rid].model_name
         /\ results[other].status = WAITING_FOR_JUDGE
         /\ results[rid].status = FAILED

\* C8: a judge response for which the Judge Response Parser returns
\* has_error = true is written with status FAILED (not COMPLETED).
C8_ParseErrorWritesFailed ==
  (last_write.engine # 0 /\ engines[last_write.engine].cls = "task" /\ last_write.parse_error)
    => last_write.to = FAILED

\* C9: within one invocation the tasks_completed values of successive progress
\* events never decrease, and when run() is about to return after an unstopped,
\* fault-free invocation the value it emits last equals tasks_total.
C9_ProgressMonotone ==
  \A e \in EngineIds :
    IsTaskEngine(e) =>
      /\ engines[e].mono
      /\ (engines[e].pc = "finalize" /\ ~engines[e].user_stop
            /\ ~engines[e].store_raised /\ ~engines[e].warmup_failed
            /\ engines[e].stage = STAGE_JUDGING)
           => engines[e].completed_tasks = engines[e].total_tasks

\* C10: when stop() is called while a benchmarking inference call is in
\* flight, that task's row is afterwards either unchanged (as loaded, status
\* NOT_COMPLETED) or one whole write (WAITING_FOR_JUDGE with response, time
\* and tokens set, or FAILED with an error message), and the engine starts no
\* further benchmarking warm-up or inference call.
C10_StopDuringBenchmarkTask ==
  \A e \in EngineIds :
    (IsTaskEngine(e) /\ engines[e].stop_in_flight # None) =>
      LET task == engines[e].stop_in_flight[1]
          row == results[task.result_id]
      IN /\ engines[e].late_calls \cap {"b_warmup", "b_infer"} = {}
         /\ \/ row = task /\ row.status = NOT_COMPLETED
            \/ /\ row.status = WAITING_FOR_JUDGE
               /\ row.llm_response # None
               /\ row.time_taken_ms # None
               /\ row.tokens_generated # None
               /\ row.error_message = None
            \/ /\ row.status = FAILED
               /\ row.error_message # None

\* the in-flight task was written, run() is about to return and a later
\* model group was never begun
C10_Witness ==
  \E e \in EngineIds :
    /\ IsTask(e, "finalize")
    /\ engines[e].stop_in_flight # None
    /\ results[engines[e].stop_in_flight[1].result_id].status = WAITING_FOR_JUDGE
    /\ \E later \in DOMAIN results :
         /\ results[later].model_name > engines[e].stop_in_flight[1].model_name
         /\ results[later].status = NOT_COMPLETED

\* C11: once a stop is requested while the benchmarking stage runs, the
\* inference of its last pending task included, the judging stage is skipped:
\* the stage never becomes JUDGING and no judge warm-up or judge inference
\* is started.
C11_StopInBenchmarkingSkipsJudging ==
  \A e \in EngineIds :
    (IsTaskEngine(e) /\ engines[e].stop_stage = Some(STAGE_BENCHMARKING)) =>
      /\ engines[e].stage # STAGE_JUDGING
      /\ engines[e].late_calls \cap {"j_warmup", "j_infer"} = {}

\* C12: within one engine invocation every judge-model inference call happens
\* after the last benchmarking inference call: no benchmarking inference is in
\* flight once a judge inference has been made, and a judge inference is made
\* only when no result of the run is left for the benchmarking stage.
C12_JudgingAfterBenchmarking ==
  \A e \in EngineIds :
    IsTaskEngine(e) =>
      /\ engines[e].pc \in {"b_model", "b_warmup", "b_task", "b_infer", "b_end"}
           => ~engines[e].judge_called
      /\ engines[e].judge_called =>
           \A rid \in RunRows(engines[e].run_id) : results[rid].status # NOT_COMPLETED

\* a judge inference is in flight in an invocation that benchmarked a second
\* model group before it
C12_Witness ==
  \E e \in EngineIds :
    /\ IsTask(e, "j_infer")
    /\ \E w1, w2 \in engines[e].written :
         /\ w1.model_name # w2.model_name
         /\ w1.status = WAITING_FOR_JUDGE
         /\ w2.status = WAITING_FOR_JUDGE

\* C13: when the warm-up of a model returns false or raises during the
\* benchmarking stage, the run is aborted: the engine goes straight to its
\* finalization, the results of that model and of every later model group are
\* exactly as loaded (NOT_COMPLETED), and no judging is done.
C13_WarmupFailureAbortsRun ==
  \A e \in EngineIds :
    (IsTaskEngine(e) /\ engines[e].warmup_failed
       /\ engines[e].stage \in {STAGE_BENCHMARKING, STAGE_JUDGING}
       /\ engines[e].models # <<>>) =>
      LET g == engines[e]
      IN /\ g.pc = "finalize"
         /\ g.stage = STAGE_BENCHMARKING
         /\ ~g.judge_called
         /\ \A i \in 1..Len(g.tasks) :
              (\E k \in g.mi..Len(g.models) : g.tasks[i].model_name = g.models[k]) =>
                /\ results[g.tasks[i].result_id] = g.tasks[i]
                /\ g.tasks[i].status = NOT_COMPLETED

\* the warm-up of the second model group failed after the first group was
\* benchmarked: the engine is about to finalize
C13_Witness ==
  \E e \in EngineIds :
    /\ IsTask(e, "finalize")
    /\ engines[e].warmup_failed
    /\ engines[e].stage = STAGE_BENCHMARKING
    /\ engines[e].mi = 2
    /\ \E w \in engines[e].written : w.status = WAITING_FOR_JUDGE

\* C14: every engine whose run() has started eventually emits its final
\* status-changed(false) and ends, whatever the outcome: completion, stop,
\* warm-up failure, an exception caught by a stage, or an exception that
\* escapes the stage functions.
C14_FinalStatusEventuallyEmitted ==
  \A e \in EngineIds :
    (engines[e].pc = "run") ~>
      (engines[e].pc = "done" /\ engines[e].status_changed = Some(FALSE))

\* an engine ended after an exception escaped the stage functions: its stage
\* marker is FAILED and the final event was emitted
C14_Witness ==
  \E e \in EngineIds :
    /\ engines[e].cls = "task"
    /\ engines[e].pc = "done"
    /\ engines[e].stage = STAGE_FAILED
    /\ engines[e].status_changed = Some(FALSE)

\* the engines submitted by start_execution that have not finished their run
Executing == {e \in EngineIds : engines[e].pc \notin {"none", "done"}}

\* C15: is_running() is true in every state in which a submitted engine has
\* not yet finished executing its run, the interval between a stop request
\* and the actual halt of the engine included.
C15_RunningWhileEngineExecutes == Executing # {} => is_running

\* C16: stop_execution() raises NotRunning if and only if no submitted engine
\* is still executing when it is called; while a submitted engine has not
\* finished, after an earlier stop request too, the call returns without error.
C16_NotRunningIffNothingExecutes ==
  last_call \in {"NotRunning", "stopped"} =>
    (last_call = "NotRunning" <=> ~last_busy)

\* C17: start_execution(run_id) on a run that does not exist or whose status
\* is not NOT_COMPLETED raises InvalidRun and changes nothing (as stated,
\* whatever the coordinator holds at the time of the call).
C17_InvalidRunAlwaysRejected ==
  [][\A run_id \in RunIdInputs :
       (/\ run_id \notin DOMAIN runs \/ runs[run_id].status # NOT_COMPLETED
        /\ start_execution(run_id))
       => /\ last_call' = "InvalidRun"
          /\ UNCHANGED <<engines, current_task, current_run_id, pool_active,
                         pool_queue, runs, results, start_emit, coord_pc>>]_vars

\* C17, amended: when is_running() is false, start_execution(run_id) on a run
\* that does not exist or whose status is not NOT_COMPLETED raises InvalidRun
\* and changes nothing: no engine is constructed or submitted, the held
\* reference and the current run id are unchanged, is_running() keeps its
\* value and no status event is emitted.
C17_InvalidRunRejectedWhenIdle ==
  [][\A run_id \in RunIdInputs :
       (/\ ~is_running
        /\ run_id \notin DOMAIN runs \/ runs[run_id].status # NOT_COMPLETED
        /\ start_execution(run_id))
       => /\ last_call' = "InvalidRun"
          /\ is_running' = is_running
          /\ UNCHANGED <<engines, current_task, current_run_id, pool_active,
                         pool_queue, runs, results, start_emit, coord_pc>>]_vars

\* InvalidRun was raised while the coordinator still held the reference and
\* the run id of an earlier, stopped engine
C17_Witness ==
  /\ last_call = "InvalidRun"
  /\ current_task # NoTask
  /\ current_run_id = ExistingRun
  /\ ~is_running

\* C18: every successful start_execution call emits status-changed(true)
\* before it returns, under every interleaving with the worker thread: the
\* value it emits is never false.
C18_StartEmitsTrue == start_emit # Some(FALSE)

\* C19: get_current_run_id() returns none whenever no engine is active: before
\* any start and after the submitted engine has finished its run, stopped or
\* not, when is_running() is false and nothing is executing.
C19_NoRunIdWhenNothingActive ==
  (coord_pc = "idle" /\ ~is_running /\ Executing = {}) => get_current_run_id = NoRun

\* C20: when the stop flag is observed at a task or model-group boundary the
\* stage aborts with every result it has not processed equal, in all fields,
\* to the row it loaded, and every row written before the stop is stored
\* exactly as written.
C20_StopLeavesRowsIntact ==
  \A e \in EngineIds :
    (IsTask(e, "finalize") /\ engines[e].user_stop
       /\ engines[e].stop_stage \in {Some(STAGE_BENCHMARKING), Some(STAGE_JUDGING)}) =>
      LET g == engines[e]
          processed == {w.result_id : w \in g.written}
      IN /\ \A w \in g.written : results[w.result_id] = w
         /\ \A i \in 1..Len(g.tasks) :
              g.tasks[i].result_id \notin processed =>
                results[g.tasks[i].result_id] = g.tasks[i]
         /\ \A rid \in RunRows(g.run_id) :
              rid \notin processed => results[rid].status = g.run_start[rid]

\* the stop was observed at a task boundary inside a model group: one row of
\* the group is stored as written, the next one is still as loaded
C20_Witness ==
  \E e \in EngineIds :
    /\ IsTask(e, "finalize")
    /\ engines[e].user_stop
    /\ engines[e].stop_stage = Some(STAGE_BENCHMARKING)
    /\ \E w \in engines[e].written : \E i \in 1..Len(engines[e].tasks) :
         /\ w.status = WAITING_FOR_JUDGE
         /\ engines[e].tasks[i].model_name = w.model_name
         /\ engines[e].tasks[i].result_id # w.result_id
         /\ results[engines[e].tasks[i].result_id].status = NOT_COMPLETED

\* C21: when handle_start_click reaches its call of start_execution for the
\* run it created with M selected models and N loaded tasks, the store holds
\* exactly M*N rows of that run, one per (model, task) pair, every one with
\* the run's id and status NOT_COMPLETED.
C21_RowsExistBeforeStart ==
  click.pc = "start" =>
    LET rows == retrieve_benchmark_results_for_run(results, click.run_id)
    IN /\ Len(rows) = Len(click.models) * NumTasks
       /\ \A i \in 1..Len(rows) : /\ rows[i].run_id = click.run_id
                                   /\ rows[i].status = NOT_COMPLETED
       /\ \A k \in 1..Len(click.models) : \A t \in 1..NumTasks :
            Cardinality({i \in 1..Len(rows) :
                           /\ rows[i].model_name = click.models[k]
                           /\ rows[i].task_id = load_tasks[t]}) = 1

\* the handler is about to start a run created for every model, the store
\* already holding the rows of an older run
C21_Witness ==
  /\ click.pc = "start"
  /\ Len(click.models) = NumModels
  /\ click.run_id \in DOMAIN runs
  /\ \E rid \in DOMAIN results : results[rid].run_id = ExistingRun

\* C22: deleting a run cascades to its results: no result row references a
\* run that is no longer stored.
C22_NoOrphanResults ==
  \A rid \in DOMAIN results : results[rid].run_id \in DOMAIN runs

\* a call of parse_judge_response has ended, by a return or by an exception
Parsed == parse_call.result # None
ParseInput == parse_call.input
ParseResult == parse_call.result[1]

\* C23: parse_judge_response never raises, whatever the input string: a text
\* whose extracted JSON is a number, a string, a list, a boolean or null
\* comes back as (has_error = true, grade = 0.0, reason = diagnostic) too.
C23_ParserNeverRaises ==
  Parsed => /\ ~ParseResult.raised
            /\ json_loads(extract_json_object(sanitize_json_string(ParseInput))) # "object"
                 => ParseResult = ParseFailure

\* C24: a JSON object with a valid in-range grade and no reason field is
\* rejected with has_error = true and grade 0.0.
C24_MissingReasonRejected ==
  (/\ Parsed
   /\ json_loads(extract_json_object(sanitize_json_string(ParseInput))) = "object"
   /\ ParseInput.reason = JAbsent
   /\ ParseInput.grade.k = "num"
   /\ GradeLow <= ParseInput.grade.n /\ ParseInput.grade.n <= GradeHigh)
  => (ParseResult.has_error /\ ParseResult.grade = 0)

\* C25: whenever parse_judge_response returns, has_error is false only for a
\* JSON object with a string reason and a grade that converts to a number
\* from 0 to 100, and then the grade and the reason returned are those of
\* the object; every other object comes back with has_error = true, grade 0.0.
C25_AcceptsOnlyValidObjects ==
  (Parsed /\ ~ParseResult.raised) =>
    LET valid == /\ json_loads(extract_json_object(sanitize_json_string(ParseInput))) = "object"
                 /\ ParseInput.reason.k = "str"
                 /\ python_float(ParseInput.grade).ok
                 /\ ~python_float(ParseInput.grade).nan
                 /\ GradeLow <= python_float(ParseInput.grade).n
                 /\ python_float(ParseInput.grade).n <= GradeHigh
    IN IF valid
         THEN /\ ~ParseResult.has_error
              /\ ParseResult.grade = python_float(ParseInput.grade).n
              /\ ParseResult.reason = ParseInput.reason.s
         ELSE ParseResult.has_error /\ ParseResult.grade = 0

\* the generate calls of the warm_up call that ended with a reply
Replies == {i \in 1..Len(warm_up_call.calls) : warm_up_call.calls[i] = "reply"}

\* C26: warm_up makes at most 5 generate attempts; it returns true on the
\* first attempt that succeeds and makes no attempt after it; it returns
\* false only after 5 failed attempts; it ends by returning in every case.
C26_WarmupAtMostFiveAttempts ==
  /\ Len(warm_up_call.calls) <= WarmupAttempts
  /\ Replies \subseteq {Len(warm_up_call.calls)}
  /\ Replies # {} => (warm_up_call.pc = "done" /\ warm_up_call.result = Some(TRUE))
  /\ warm_up_call.result = Some(TRUE) => Replies # {}
  /\ warm_up_call.result = Some(FALSE) =>
       (Len(warm_up_call.calls) = WarmupAttempts /\ Replies = {})
  /\ warm_up_call.pc = "done" <=> warm_up_call.result # None

\* warm_up returned true on its third attempt, after two that raised
C26_Witness ==
  /\ warm_up_call.result = Some(TRUE)
  /\ warm_up_call.calls = <<"raise", "raise", "reply">>

\* C27: the engine never writes the BenchmarkRun record.  Whatever engines have
\* been constructed, started, stopped or finished, every stored run still has
\* the run_id, timestamp, judge_model and status it had before; in particular
\* the run of a returned engine is still NOT_COMPLETED, also when none of its
\* rows is left to process, so start_execution's validity test still passes.
C27_EngineLeavesRunRecord ==
  /\ runs = InitialRuns
  /\ \A e \in EngineIds :
       engines[e].pc # "none"
       => /\ engines[e].run_id \in DOMAIN runs
          /\ runs[engines[e].run_id].status = NOT_COMPLETED

\* an engine has returned, every row of its run is COMPLETED or FAILED, and
\* start_execution has accepted the same run again for a later engine
C27_Witness ==
  \E e1, e2 \in EngineIds :
    /\ e1 < e2
    /\ engines[e1].pc = "done"
    /\ engines[e2].pc # "none"
    /\ engines[e2].run_id = engines[e1].run_id
    /\ \A rid \in RunRows(engines[e1].run_id) : results[rid].status \in {COMPLETED, FAILED}
    /\ runs[engines[e1].run_id].status = NOT_COMPLETED

\* C28: when a stage-level exception has ended a stage of an engine of
\* qt_benchmark_execution_task.py (the store raised while the stage loaded its
\* rows, or while the FAILED row of a failed task was written), the progress
\* event emitted when run() returns carries the stage marker FAILED.
C28_StageExceptionEndsFailed ==
  [][\A e \in EngineIds :
       (/\ engines[e].cls = "task"
        /\ engines[e].pc = "finalize"
        /\ engines[e].stage_raised
        /\ engines'[e].pc = "done")
       => engines'[e].last_stage = Some(STAGE_FAILED)]_vars

StageRank(s) ==
  CASE s = STAGE_INITIALIZING -> 0
    [] s = STAGE_BENCHMARKING -> 1
    [] s = STAGE_JUDGING -> 2
    [] s = STAGE_FINISHED -> 3
    [] s = STAGE_FAILED -> 3

\* C29: the stage values carried by the progress events of one invocation of
\* an engine of qt_benchmark_execution_task.py follow the order INITIALIZING,
\* BENCHMARKING, JUDGING, then FINISHED or FAILED: the first event carries
\* INITIALIZING, a later event carries the same stage as the one before it or
\* a later one, nothing follows a terminal value but itself, and once run()
\* has returned, stopped or not, the last event carried FINISHED or FAILED.
C29_StageOrder ==
  /\ [](\A e \in EngineIds :
          (engines[e].cls = "task" /\ engines[e].pc = "done")
          => engines[e].last_stage \in {Some(STAGE_FINISHED), Some(STAGE_FAILED)})
  /\ [][\A e \in EngineIds :
          (engines[e].cls = "task" /\ engines'[e].cls = "task"
             /\ engines'[e].last_stage # engines[e].last_stage)
          => IF engines[e].last_stage = None
               THEN engines'[e].last_stage = Some(STAGE_INITIALIZING)
               ELSE StageRank(engines'[e].last_stage[1]) > StageRank(engines[e].last_stage[1])]_vars

\* a stopped engine has returned after judging a row of its run, and its last
\* progress event carried FINISHED
C29_Witness ==
  \E e \in EngineIds :
    /\ engines[e].cls = "task"
    /\ engines[e].pc = "done"
    /\ engines[e].user_stop
    /\ engines[e].last_stage = Some(STAGE_FINISHED)
    /\ \E rid \in RunRows(engines[e].run_id) : results[rid].status = COMPLETED

InBenchStage(e) ==
  /\ engines[e].cls = "task"
  /\ engines[e].pc \in {"b_model", "b_warmup", "b_task", "b_infer", "b_end"}

\* position of a pending row, and of the first pending row of a model, in the
\* list the store handed to the stage
RowIndex(pending, rid) == CHOOSE i \in 1..Len(pending) : pending[i].result_id = rid
FirstIndex(pending, model) ==
  CHOOSE i \in 1..Len(pending) :
    /\ pending[i].model_name = model
    /\ \A k \in 1..(i - 1) : pending[k].model_name # model

\* C30: in the benchmarking stage of an engine of
\* qt_benchmark_execution_task.py the model groups are taken in the order in
\* which their models first appear among the pending rows; the rows of one
\* model are taken up contiguously and in retrieval order; a model is warmed
\* up at most once, before the first row of its group, and exactly once by
\* the time the stage has gone through all its pending rows, each of which
\* has then been taken up exactly once.
C30_ModelGroupsInOrder ==
  \A e \in EngineIds :
    InBenchStage(e) =>
      LET pending == engines[e].tasks
          calls == engines[e].bench_calls
          N == Len(calls)
          Warmups(m) == {i \in 1..N : calls[i].kind = "warmup" /\ calls[i].model_name = m}
          Takes(rid) == {i \in 1..N : calls[i].kind = "task" /\ calls[i].result_id = rid}
          PendingModels == {pending[i].model_name : i \in 1..Len(pending)}
      IN /\ \A i \in 1..N : calls[i].model_name \in PendingModels
         /\ \A i \in 1..N : calls[i].kind = "task"
                => \E k \in 1..Len(pending) : pending[k].result_id = calls[i].result_id
         \* groups in order of first appearance
         /\ \A i, j \in 1..N :
              (i < j /\ calls[i].model_name # calls[j].model_name)
              => FirstIndex(pending, calls[i].model_name)
                   < FirstIndex(pending, calls[j].model_name)
         \* one group is contiguous
         /\ \A i, j, k \in 1..N :
              (i < j /\ j < k /\ calls[i].model_name = calls[k].model_name)
              => calls[j].model_name = calls[i].model_name
         \* inside a group: the warm-up first, then the rows in retrieval order
         /\ \A i, j \in 1..N :
              (i < j /\ calls[i].model_name = calls[j].model_name)
              => /\ calls[j].kind = "task"
                 /\ calls[i].kind = "task"
                      => RowIndex(pending, calls[i].result_id)
                           < RowIndex(pending, calls[j].result_id)
         /\ \A i \in 1..N : calls[i].kind = "task"
                => \E w \in 1..(i - 1) : /\ calls[w].kind = "warmup"
                                         /\ calls[w].model_name = calls[i].model_name
         /\ \A m \in PendingModels : Cardinality(Warmups(m)) <= 1
         /\ engines[e].pc = "b_end"
              => /\ \A m \in PendingModels : Cardinality(Warmups(m)) = 1
                 /\ \A k \in 1..Len(pending) :
                      Cardinality(Takes(pending[k].result_id)) = 1

\* a stage has gone through the rows of two models whose first pending rows
\* come in the order model 2, model 1
C30_Witness ==
  \E e \in EngineIds :
    /\ InBenchStage(e)
    /\ engines[e].pc = "b_end"
    /\ Len(engines[e].tasks) = NumModels * NumTasks
    /\ engines[e].tasks[1].model_name = 2
    /\ engines[e].bench_calls[1] = WarmupCall(2)
    /\ \E i \in 1..Len(engines[e].bench_calls) : engines[e].bench_calls[i] = WarmupCall(1)

\* C31: a row whose benchmarking inference came back with has_error = true
\* in this invocation of an engine of qt_benchmark_execution_task.py is
\* stored FAILED with the client's error_message.
C31_ReportedErrorIsStoredFailed ==
  \A e \in EngineIds :
    IsTaskEngine(e) =>
      \A rid \in engines[e].error_reported :
        /\ results[rid].status = FAILED
        /\ results[rid].error_message = ErrorResponse.error_message

\* the run of engine e had only NOT_COMPLETED rows when run() began
FreshRun(e) ==
  /\ DOMAIN engines[e].run_start # {}
  /\ \A rid \in DOMAIN engines[e].run_start : engines[e].run_start[rid] = NOT_COMPLETED

\* what the claim excludes: a stop request, a failed warm-up, a store failure,
\* a collaborator call that raised, an exception that reached run()
Disturbed(e) ==
  \/ engines[e].user_stop
  \/ engines[e].stop_requested
  \/ engines[e].warmup_failed
  \/ engines[e].store_raised
  \/ engines[e].raised # {}
  \/ engines[e].stage = STAGE_FAILED

\* C32: an engine of qt_benchmark_execution_task.py started on a run whose
\* rows are all NOT_COMPLETED reaches the end of run(), and unless a stop was
\* requested, a warm-up failed, the store failed or a collaborator call
\* raised, every row of the run is then COMPLETED or FAILED.
C32_FreshRunEndsAllTerminal ==
  \A e \in EngineIds :
    (IsTask(e, "b_stage") /\ FreshRun(e))
    ~> (/\ engines[e].pc = "finalize"
        /\ Disturbed(e) \/ \A rid \in RunRows(engines[e].run_id) :
                              results[rid].status \in {COMPLETED, FAILED})

\* an undisturbed engine on a fresh run is about to return; every row of the
\* run is terminal and at least one was judged COMPLETED
C32_Witness ==
  \E e \in EngineIds :
    /\ IsTask(e, "finalize")
    /\ FreshRun(e)
    /\ ~Disturbed(e)
    /\ \A rid \in RunRows(engines[e].run_id) : results[rid].status \in {COMPLETED, FAILED}
    /\ \E rid \in RunRows(engines[e].run_id) : results[rid].status = COMPLETED

\* C33: every row stored by an engine of qt_benchmark_execution_task.py fits
\* its status: WAITING_FOR_JUDGE with no score, reason or error message;
\* COMPLETED with a score and a reason and no error message; FAILED with an
\* error message and no score or reason.  No other status is ever written.
C33_WrittenRowsFitTheirStatus ==
  \A e \in EngineIds :
    IsTaskEngine(e) =>
      \A w \in engines[e].written :
        /\ w.status \in {WAITING_FOR_JUDGE, COMPLETED, FAILED}
        /\ w.status = WAITING_FOR_JUDGE
             => (w.evaluation_score = None /\ w.evaluation_reason = None
                   /\ w.error_message = None)
        /\ w.status = COMPLETED
             => (w.evaluation_score # None /\ w.evaluation_reason # None
                   /\ w.error_message = None)
        /\ w.status = FAILED
             => (w.error_message # None /\ w.evaluation_score = None
                   /\ w.evaluation_reason = None)
        /\ results[w.result_id] = w

\* one invocation has stored a row of each kind: one still waiting for the
\* judge, one judged, one whose judging failed
C33_Witness ==
  \E e \in EngineIds :
    /\ IsTaskEngine(e)
    /\ \E w \in engines[e].written : w.status = WAITING_FOR_JUDGE
    /\ \E w \in engines[e].written : w.status = COMPLETED
    /\ \E w \in engines[e].written :
         w.status = FAILED /\ w.llm_response # None

\* C34: every progress event emitted by an engine of
\* qt_benchmark_execution_task.py carries 0 <= tasks_completed <= tasks_total:
\* the counters as they stood at its latest event satisfy it, whichever stage
\* emitted it, on fresh and resumed runs, after succeeded and failed tasks.
C34_ProgressWithinTotal ==
  \A e \in EngineIds :
    (IsTaskEngine(e) /\ engines[e].emitted)
    => /\ 0 <= engines[e].last_completed
       /\ engines[e].last_completed <= engines[e].last_total

\* a resumed run: the judging stage of an engine that found rows already
\* processed has emitted its last count after a task of it failed
C34_Witness ==
  \E e \in EngineIds :
    /\ IsTask(e, "finalize")
    /\ ~FreshRun(e)
    /\ engines[e].stage = STAGE_JUDGING
    /\ engines[e].raised # {}
    /\ engines[e].last_total = NumModels * NumTasks
    /\ engines[e].last_completed = engines[e].last_total


\* every submitted engine has finished and the coordinator's thread is back
\* in its event loop with nothing left to relay
AllEnginesFinished ==
  /\ Constructed # {}
  /\ \A e \in Constructed : engines[e].pc = "done"
  /\ coord_pc = "idle"
  /\ click.pc = "idle"
  /\ status_events.pending = <<>>

\* C35: once every submitted engine has finished, the last status-changed
\* value the coordinator's subscribers received is false, also when a second
\* engine was started after a stop and the first engine was disconnected.
C35_LastStatusIsFalse ==
  AllEnginesFinished => status_events.seen = Some(FALSE)

\* two engines have finished, the first one stopped by the user and replaced
\* by the second, and the subscribers saw false last
C35_Witness ==
  /\ AllEnginesFinished
  /\ Cardinality(Constructed) = 2
  /\ engines[1].user_stop
  /\ current_task = 2
  /\ status_events.seen = Some(FALSE)


\* the row the flow-file engine is running benchmarking inference for
FlowInferTask(e) ==
  tasks_for_model(engines[e].tasks, engines[e].models[engines[e].mi])[engines[e].ti]

RowIdentity(r) == <<r.result_id, r.run_id, r.task_id, r.model_name>>

\* the fields the benchmarking stage stored
RowResponse(r) == <<r.llm_response, r.time_taken_ms, r.tokens_generated>>

\* C37: every result update of the engine keeps result_id, run_id, task_id and
\* model_name of the row; an update made in the judging stage also keeps
\* llm_response, time_taken_ms and tokens_generated; the engine neither
\* creates nor deletes result rows.
C37_WritesKeepRowFields ==
  [][results' # results =>
       /\ DOMAIN results' = DOMAIN results
       /\ \A rid \in DOMAIN results :
            results'[rid] # results[rid] =>
              /\ last_write'.result_id = rid
              /\ RowIdentity(results'[rid]) = RowIdentity(results[rid])
              /\ engines[last_write'.engine].stage = STAGE_JUDGING
                   => RowResponse(results'[rid]) = RowResponse(results[rid])]_vars

\* a judging-stage update has turned a benchmarked row into a COMPLETED one
\* that still carries the stored response
C37_Witness ==
  /\ last_write.engine # 0
  /\ IsTaskEngine(last_write.engine)
  /\ last_write.from = WAITING_FOR_JUDGE
  /\ last_write.to = COMPLETED
  /\ results[last_write.result_id].status = COMPLETED
  /\ results[last_write.result_id].llm_response = Some(GoodResponse.llm_response)
  /\ results[last_write.result_id].result_id = last_write.result_id


====
